---- MODULE Spec2Model ----
(***************************************************************************)
(* The Unfair Wheel: the per-group Durable Object (GroupDurableObject),    *)
(* its persisted GroupState, its WebSocket fan-out and the deferred spin   *)
(* resolver.                                                               *)
(*                                                                         *)
(* Conventions.                                                            *)
(*  - A nullable value is a sequence of length <= 1: Null is <<>> and a    *)
(*    present value v is <<v>>.                                            *)
(*  - A JavaScript string is a sequence of one-character strings, so that  *)
(*    trim, whitespace collapsing, toLowerCase and the e-mail pattern are  *)
(*    computed, not assumed.                                               *)
(*  - Ids produced by randomId() are fresh integers taken from counters.   *)
(*  - Instants are integers (milliseconds); an ISO-8601 string is the      *)
(*    record [iso |-> ms].                                                 *)
(***************************************************************************)
EXTENDS Integers, Sequences, FiniteSets, TLC

\* ------------------------------------------------------------------ bounds
\* participants ever created by randomId() in the participant handlers
MaxParticipantIds == 3
\* spins ever started
MaxSpins == 2
\* states persisted in one run
MaxVersion == 4
\* WebSocket connections ever accepted
MaxSockets == 1
\* clock advances of one TTL each
MaxTicks == 2

\* ------------------------------------------------------- program constants
MAX_SPIN_HISTORY_ITEMS == 20
PENDING_RESULT_TTL_MS == 600000
MaxNameLength == 60

\* ----------------------------------------------------------------- options
Null == <<>>
Some(v) == <<v>>
IsNull(x) == x = <<>>
Val(x) == x[1]

\* ----------------------------------------------------------------- strings
IsSpace(ch) == ch = " "

RECURSIVE TrimStart(_)
TrimStart(s) ==
  IF s = <<>> THEN <<>>
  ELSE IF IsSpace(Head(s)) THEN TrimStart(Tail(s)) ELSE s

RECURSIVE TrimEnd(_)
TrimEnd(s) ==
  IF s = <<>> THEN <<>>
  ELSE IF IsSpace(s[Len(s)]) THEN TrimEnd(SubSeq(s, 1, Len(s) - 1)) ELSE s

\* String.prototype.trim
Trim(s) == TrimEnd(TrimStart(s))

\* String.prototype.replace(/\s+/g, " ")
RECURSIVE CollapseSpaces(_)
CollapseSpaces(s) ==
  IF s = <<>> THEN <<>>
  ELSE IF IsSpace(Head(s))
       THEN <<" ">> \o CollapseSpaces(TrimStart(Tail(s)))
       ELSE <<Head(s)>> \o CollapseSpaces(Tail(s))

LowerChar(ch) ==
  CASE ch = "A" -> "a"
    [] ch = "B" -> "b"
    [] ch = "C" -> "c"
    [] OTHER -> ch

\* String.prototype.toLowerCase
ToLowerCase(s) == [i \in 1..Len(s) |-> LowerChar(s[i])]

normalizeName(name) == CollapseSpaces(Trim(name))

\* validateName: the normalised name, or Null where the code throws
validateName(name) ==
  LET normalized == normalizeName(name)
  IN IF normalized = <<>> \/ Len(normalized) > MaxNameLength
     THEN Null
     ELSE Some(normalized)

\* EMAIL_PATTERN = /^[^\s@]+@[^\s@]+\.[^\s@]+$/
EMAIL_PATTERN_test(s) ==
  /\ \A i \in 1..Len(s) : ~IsSpace(s[i])
  /\ Cardinality({i \in 1..Len(s) : s[i] = "@"}) = 1
  /\ LET at == CHOOSE i \in 1..Len(s) : s[i] = "@"
     IN /\ at > 1
        /\ \E k \in (at + 2)..(Len(s) - 1) : s[k] = "."


\* normalizeEmailId: [ok |-> FALSE] where the code throws
normalizeEmailId(emailId) ==
  IF emailId.t \in {"undefined", "null"} THEN [ok |-> TRUE, value |-> Null]
  ELSE IF emailId.t # "string" THEN [ok |-> FALSE, value |-> Null]
  ELSE LET trimmed == Trim(emailId.v)
       IN IF trimmed = <<>> THEN [ok |-> TRUE, value |-> Null]
          ELSE IF ~EMAIL_PATTERN_test(trimmed) THEN [ok |-> FALSE, value |-> Null]
          ELSE [ok |-> TRUE, value |-> Some(trimmed)]

\* -------------------------------------------------------------- JSON values
Undefined == [t |-> "undefined"]
JNull == [t |-> "null"]
JStr(s) == [t |-> "string", v |-> s]
JBool(b) == [t |-> "boolean", v |-> b]
JNum(n) == [t |-> "number", n |-> n]

\* ------------------------------------------------------------------- time
toISOString(ms) == [iso |-> ms]
DateParse(s) == s.iso

\* ------------------------------------------------------- sequence helpers
RECURSIVE SeqFilter(_, _)
SeqFilter(s, keep) ==
  IF s = <<>> THEN <<>>
  ELSE IF Head(s) \in keep
       THEN <<Head(s)>> \o SeqFilter(Tail(s), keep)
       ELSE SeqFilter(Tail(s), keep)

Range(s) == {s[i] : i \in 1..Len(s)}
Reverse(s) == [i \in 1..Len(s) |-> s[Len(s) + 1 - i]]
\* Array.prototype.slice(0, n)
SliceFirst(s, n) == IF Len(s) <= n THEN s ELSE SubSeq(s, 1, n)
\* Array.prototype.slice(-n)
SliceLast(s, n) == IF Len(s) <= n THEN s ELSE SubSeq(s, Len(s) - n + 1, Len(s))
Ids(ps) == {ps[i].id : i \in 1..Len(ps)}
ById(ps, id) == ps[CHOOSE i \in 1..Len(ps) : ps[i].id = id]
Actives(ps) == SeqFilter(ps, {p \in Range(ps) : p.active})
Without(ps, ids) == SeqFilter(ps, {p \in Range(ps) : p.id \notin ids})

\* ------------------------------------------------------------- GroupState
DEFAULT_SPIN_STATE ==
  [status |-> "idle", spinId |-> Null, startedAt |-> Null, resolvedAt |-> Null,
   winnerParticipantId |-> Null, durationMs |-> Null, extraTurns |-> Null]

\* normalizeParticipant, applied to every stored participant by loadState
normalizeParticipant(p) ==
  LET emailId ==
        IF ~IsNull(p.emailId) /\ Trim(Val(p.emailId)) # <<>>
           /\ EMAIL_PATTERN_test(Trim(Val(p.emailId)))
        THEN Some(Trim(Val(p.emailId)))
        ELSE Null
  IN [p EXCEPT !.emailId = emailId,
               !.manager = p.manager /\ emailId # Null,
               !.spinsSinceLastWon = IF @ >= 0 THEN @ ELSE 0]

cloneParticipants(ps) == [i \in 1..Len(ps) |-> normalizeParticipant(ps[i])]

cloneSpinHistory(items) ==
  [i \in 1..Len(items) |->
     [items[i] EXCEPT !.participants = cloneParticipants(@)]]

\* loadState on an initialised storage
loadState(data) ==
  [data EXCEPT !.participants = cloneParticipants(@),
               !.spinHistory = cloneSpinHistory(@)]

bumpAndSave(nextState) == [nextState EXCEPT !.version = @ + 1]

Event(type, version, payload) ==
  [type |-> type, version |-> version, payload |-> payload]

\* the outcome of one handler run on its loaded copy `current`
Reply(status, current) ==
  [status |-> status, save |-> FALSE, state |-> current, events |-> <<>>,
   created |-> {}, removed |-> {}, timer |-> Null]

Saved(status, next, events) ==
  [status |-> status, save |-> TRUE, state |-> next, events |-> events,
   created |-> {}, removed |-> {}, timer |-> Null]


\* `body.x ?? fallback` for a string field; Null where a later call throws
StringOr(x, fallback) ==
  IF x.t \in {"undefined", "null"} THEN Some(fallback)
  ELSE IF x.t = "string" THEN Some(x.v) ELSE Null

\* `body.xs ?? []` followed by Array.isArray; Null for a non-array
ArrayOr(x) ==
  IF x.t \in {"undefined", "null"} THEN Some(<<>>)
  ELSE IF x.t = "array" THEN Some(x.v) ELSE Null

\* a comparison that forgets toLowerCase
NameTakenCaseSensitive(ps, name) == \E p \in Range(ps) : p.name = name

NameTaken(ps, name) ==
  \E p \in Range(ps) : ToLowerCase(p.name) = ToLowerCase(name)

\* a handler that lets a manager without an email through
managerLacksEmailNever(manager, emailId) == FALSE

\* `manager && !emailId`
managerLacksEmail(manager, emailId) == manager /\ IsNull(emailId)

\* ------------------------------------------------- POST /participants
addParticipant(current, body, newId) ==
  LET rawName == StringOr(body.name, <<>>)
      name == IF IsNull(rawName) THEN Null ELSE validateName(Val(rawName))
      email == normalizeEmailId(body.emailId)
      manager == body.manager.t = "boolean" /\ body.manager.v = TRUE
  IN IF IsNull(name) THEN Reply(400, current)
     ELSE IF ~email.ok THEN Reply(400, current)
     ELSE IF body.manager.t \notin {"undefined", "boolean"} THEN Reply(400, current)
     ELSE IF managerLacksEmail(manager, email.value) THEN Reply(400, current)
     ELSE IF NameTaken(current.participants, Val(name)) THEN Reply(409, current)
     ELSE
       LET participant ==
             [id |-> newId, name |-> Val(name), active |-> TRUE,
              emailId |-> email.value, manager |-> manager,
              spinsSinceLastWon |-> 0]
           next == bumpAndSave(
                     [current EXCEPT !.participants = Append(@, participant)])
       IN [Saved(201, next,
                 <<Event("participant.added", next.version,
                         [participant |-> participant])>>)
             EXCEPT !.created = {newId}]

\* ------------------------------------------- PATCH /participants/:id
\* a handler that edits the stored participants themselves: what it had
\* assigned before it gave up stays
updateErrorInPlace(status, current, touched) ==
  [Reply(status, current) EXCEPT !.save = TRUE, !.state = touched]

\* `return this.error(status, ...)` inside the PATCH handler: `touched`, the
\* loaded copy with the fields assigned so far, is dropped
updateError(status, current, touched) == Reply(status, current)

updateParticipant(current, participantId, body) ==
  IF body.active.t = "undefined" /\ body.emailId.t = "undefined"
     /\ body.manager.t = "undefined"
  THEN Reply(400, current)
  ELSE IF participantId \notin Ids(current.participants) THEN Reply(404, current)
  ELSE
    LET p0 == ById(current.participants, participantId)
        email == IF body.emailId.t # "undefined"
                 THEN normalizeEmailId(body.emailId)
                 ELSE [ok |-> TRUE, value |-> p0.emailId]
        pA == [p0 EXCEPT
                 !.active = IF body.active.t = "boolean" THEN body.active.v ELSE @]
        pE == [pA EXCEPT !.emailId = email.value]
        p1 == [pE EXCEPT
                 !.manager = IF body.manager.t = "boolean" THEN body.manager.v ELSE @]
        participant == [p1 EXCEPT !.manager = @ /\ ~IsNull(p1.emailId)]
        With(p) ==
          [current EXCEPT !.participants =
             [i \in 1..Len(@) |-> IF @[i].id = participantId THEN p ELSE @[i]]]
    IN IF body.active.t \notin {"undefined", "boolean"}
       THEN updateError(400, current, current)
       ELSE IF ~email.ok THEN updateError(400, current, With(pA))
       ELSE IF body.manager.t \notin {"undefined", "boolean"}
       THEN updateError(400, current, With(pE))
       ELSE IF p1.manager /\ IsNull(p1.emailId)
       THEN updateError(400, current, With(p1))
       ELSE
         LET next == bumpAndSave(With(participant))
         IN Saved(200, next,
                  <<Event("participant.updated", next.version,
                          [participant |-> participant])>>)

\* ------------------------------------------ DELETE /participants/:id
removeParticipant(current, participantId) ==
  LET remaining == Without(current.participants, {participantId})
  IN IF Len(remaining) = Len(current.participants) THEN Reply(404, current)
     ELSE
       LET next == bumpAndSave([current EXCEPT !.participants = remaining])
       IN [Saved(204, next,
                 <<Event("participant.removed", next.version,
                         [participantId |-> participantId])>>)
             EXCEPT !.removed = {participantId}]


\* --------------------------------------- POST /participants/commit
\* the `removes` loop: [status |-> 0] when every entry passes
RECURSIVE commitRemoves(_, _, _)
commitRemoves(removes, ids, removeSet) ==
  IF removes = <<>> THEN [status |-> 0, removeSet |-> removeSet]
  ELSE LET r == Head(removes)
       IN IF r.t # "string" THEN [status |-> 400, removeSet |-> removeSet]
          ELSE IF r.v \notin ids THEN [status |-> 404, removeSet |-> removeSet]
          ELSE IF r.v \in Range(removeSet) THEN [status |-> 400, removeSet |-> removeSet]
          ELSE commitRemoves(Tail(removes), ids, Append(removeSet, r.v))

\* the `updates` loop; updateMap keeps Map insertion order
RECURSIVE commitUpdates(_, _, _, _)
commitUpdates(updates, ps, removeSet, updateMap) ==
  IF updates = <<>> THEN [status |-> 0, updateMap |-> updateMap]
  ELSE
    LET u == Head(updates)
        fail(st) == [status |-> st, updateMap |-> updateMap]
    IN IF u.participantId.t # "string" THEN fail(400)
       ELSE IF u.participantId.v \notin Ids(ps) THEN fail(404)
       ELSE IF u.participantId.v \in Range(removeSet) THEN fail(400)
       ELSE IF \E m \in Range(updateMap) : m.participantId = u.participantId.v
            THEN fail(400)
       ELSE
         LET cp == ById(ps, u.participantId.v)
             email == IF u.emailId.t # "undefined"
                      THEN normalizeEmailId(u.emailId)
                      ELSE [ok |-> TRUE, value |-> cp.emailId]
             manager == IF u.manager.t = "boolean" THEN u.manager.v ELSE cp.manager
         IN IF ~email.ok THEN fail(400)
            ELSE IF u.manager.t \notin {"undefined", "boolean"} THEN fail(400)
            ELSE IF manager /\ IsNull(email.value) THEN fail(400)
            ELSE commitUpdates(Tail(updates), ps, removeSet,
                   Append(updateMap,
                     [participantId |-> u.participantId.v,
                      emailId |-> email.value,
                      manager |-> manager /\ ~IsNull(email.value)]))

\* the `adds` loop; existingNames holds lower-cased names
RECURSIVE commitAdds(_, _, _, _)
commitAdds(adds, existingNames, added, newId) ==
  IF adds = <<>> THEN [status |-> 0, added |-> added]
  ELSE
    LET a == Head(adds)
        fail(st) == [status |-> st, added |-> added]
        rawName == StringOr(a.name, <<>>)
        name == IF IsNull(rawName) THEN Null ELSE validateName(Val(rawName))
        email == normalizeEmailId(a.emailId)
        manager == a.manager.t = "boolean" /\ a.manager.v = TRUE
    IN IF IsNull(name) THEN fail(400)
       ELSE IF ToLowerCase(Val(name)) \in existingNames THEN fail(409)
       ELSE IF a.manager.t \notin {"undefined", "boolean"} THEN fail(400)
       ELSE IF ~email.ok THEN fail(400)
       ELSE IF manager /\ IsNull(email.value) THEN fail(400)
       ELSE commitAdds(Tail(adds),
              existingNames \cup {ToLowerCase(Val(name))},
              Append(added,
                [id |-> newId, name |-> Val(name), active |-> TRUE,
                 emailId |-> email.value, manager |-> manager,
                 spinsSinceLastWon |-> 0]),
              newId + 1)

\* the broadcasts of a commit with the added participants announced first
commitEventsAddsFirst(removedEvents, updatedEvents, addedEvents) ==
  addedEvents \o removedEvents \o updatedEvents

\* the three broadcast loops of a commit, in the order they run
commitEvents(removedEvents, updatedEvents, addedEvents) ==
  removedEvents \o updatedEvents \o addedEvents

\* a commit that has applied its removes by the time a later entry is rejected
commitErrorAfterRemoves(status, current, removeSet) ==
  IF removeSet = <<>> THEN Reply(status, current)
  ELSE LET next == bumpAndSave(
                     [current EXCEPT
                        !.participants = Without(@, Range(removeSet))])
       IN Saved(status, next,
                [i \in 1..Len(removeSet) |->
                   Event("participant.removed", next.version,
                         [participantId |-> removeSet[i]])])

\* `return this.error(status, ...)` inside the commit handler: the loaded copy
\* is dropped, whatever the loops have collected so far
commitError(status, current, removeSet) == Reply(status, current)

commitParticipants(current, body, newId) ==
  LET adds == ArrayOr(body.adds)
      updates == ArrayOr(body.updates)
      removes == ArrayOr(body.removes)
  IN IF IsNull(adds) \/ IsNull(updates) \/ IsNull(removes) THEN Reply(400, current)
     ELSE
       LET ps == current.participants
           rm == commitRemoves(Val(removes), Ids(ps), <<>>)
           up == commitUpdates(Val(updates), ps, rm.removeSet, <<>>)
           existingNames ==
             {ToLowerCase(p.name) : p \in Range(Without(ps, Range(rm.removeSet)))}
           ad == commitAdds(Val(adds), existingNames, <<>>, newId)
       IN IF rm.status # 0 THEN commitError(rm.status, current, rm.removeSet)
          ELSE IF up.status # 0 THEN commitError(up.status, current, rm.removeSet)
          ELSE IF ad.status # 0 THEN commitError(ad.status, current, rm.removeSet)
          ELSE
            LET kept == Without(ps, Range(rm.removeSet))
                mapped ==
                  [i \in 1..Len(kept) |->
                     IF \E m \in Range(up.updateMap) : m.participantId = kept[i].id
                     THEN LET m == CHOOSE m \in Range(up.updateMap) :
                                     m.participantId = kept[i].id
                          IN [kept[i] EXCEPT !.emailId = m.emailId,
                                             !.manager = m.manager]
                     ELSE kept[i]]
                next == bumpAndSave(
                          [current EXCEPT !.participants = mapped \o ad.added])
                removedEvents ==
                  [i \in 1..Len(rm.removeSet) |->
                     Event("participant.removed", next.version,
                           [participantId |-> rm.removeSet[i]])]
                updatedEvents ==
                  [i \in 1..Len(up.updateMap) |->
                     Event("participant.updated", next.version,
                           [participant |->
                              ById(next.participants, up.updateMap[i].participantId)])]
                addedEvents ==
                  [i \in 1..Len(ad.added) |->
                     Event("participant.added", next.version,
                           [participant |-> ad.added[i]])]
            IN [Saved(200, next,
                      commitEvents(removedEvents, updatedEvents, addedEvents))
                  EXCEPT !.created = Ids(ad.added),
                         !.removed = Range(rm.removeSet)]


\* ------------------------------------------------------- weighted draw
Max(a, b) == IF a >= b THEN a ELSE b

participantWeight(participant) == Max(1, participant.spinsSinceLastWon + 1)

RECURSIVE totalWeight(_)
totalWeight(ps) ==
  IF ps = <<>> THEN 0 ELSE participantWeight(Head(ps)) + totalWeight(Tail(ps))

\* a walk that stops when the draw reaches 0 instead of going below it
RECURSIVE pickWalkInclusive(_, _)
pickWalkInclusive(ps, draw) ==
  IF Len(ps) = 1 THEN Head(ps)
  ELSE IF draw - participantWeight(Head(ps)) <= 0 THEN Head(ps)
  ELSE pickWalkInclusive(Tail(ps), draw - participantWeight(Head(ps)))

\* the walk of pickWeightedWinner for the draw Math.random() * totalWeight,
\* whose integer part is `draw`: the first participant that takes it below 0
RECURSIVE pickWalk(_, _)
pickWalk(ps, draw) ==
  IF Len(ps) = 1 THEN Head(ps)
  ELSE IF draw - participantWeight(Head(ps)) < 0 THEN Head(ps)
  ELSE pickWalk(Tail(ps), draw - participantWeight(Head(ps)))

pickWeightedWinner(ps, draw) ==
  IF totalWeight(ps) <= 0 THEN Null ELSE Some(pickWalk(ps, draw))

\* ---------------------------------------------------------- POST /spin
tooFewForThree(eligibleParticipants) == Len(eligibleParticipants) <= 2

\* `eligibleParticipants.length < 2`
tooFew(eligibleParticipants) == Len(eligibleParticipants) < 2

requestSpin(current, draw, spinId, durationMs, extraTurns, nowTs) ==
  IF current.spin.status = "spinning" THEN Reply(409, current)
  ELSE
    LET eligibleParticipants == Actives(current.participants)
    IN IF tooFew(eligibleParticipants) THEN Reply(409, current)
       ELSE
         LET winner == pickWeightedWinner(eligibleParticipants, draw)
         IN IF IsNull(winner) THEN Reply(500, current)
            ELSE
              LET spin == [status |-> "spinning",
                           spinId |-> Some(spinId),
                           startedAt |-> Some(toISOString(nowTs)),
                           resolvedAt |-> Null,
                           winnerParticipantId |-> Some(Val(winner).id),
                           durationMs |-> Some(durationMs),
                           extraTurns |-> Some(extraTurns)]
                  startedState == bumpAndSave([current EXCEPT !.spin = spin])
              IN [Saved(202, startedState,
                        <<Event("spin.started", startedState.version,
                                [spin |-> startedState.spin])>>)
                    EXCEPT !.timer = Some([spinId |-> spinId,
                                           due |-> nowTs + durationMs])]

\* --------------------------------------------------------- resolveSpin
countSpinEveryone(ps, winnerParticipantId) ==
  [i \in 1..Len(ps) |->
     IF ps[i].id = winnerParticipantId
     THEN [ps[i] EXCEPT !.spinsSinceLastWon = 0]
     ELSE [ps[i] EXCEPT !.spinsSinceLastWon = @ + 1]]

\* the loop over current.participants: inactive ones are skipped, the
\* winner's counter is reset, every other active counter grows by one
countSpin(ps, winnerParticipantId) ==
  [i \in 1..Len(ps) |->
     IF ~ps[i].active THEN ps[i]
     ELSE IF ps[i].id = winnerParticipantId
          THEN [ps[i] EXCEPT !.spinsSinceLastWon = 0]
          ELSE [ps[i] EXCEPT !.spinsSinceLastWon = @ + 1]]

\* a winner drawn afresh at resolve time: the first still-active participant
resolvedWinnerRedrawn(current) ==
  IF Actives(current.participants) = <<>>
  THEN Val(current.spin.winnerParticipantId)
  ELSE Actives(current.participants)[1].id

\* the winner resolveSpin records: the one stored with the spin at its start
resolvedWinner(current) == Val(current.spin.winnerParticipantId)

\* a resolver without the guard
supersededNever(current, spinId) == FALSE

\* a guard that lets any timer resolve whatever spin is in progress
supersededWhenIdle(current, spinId) == current.spin.status # "spinning"

\* the resolver's guard: the stored spin is not the one the timer was set for
superseded(current, spinId) ==
  current.spin.status # "spinning" \/ current.spin.spinId # Some(spinId)

resolveSpin(current, spinId, nowTs) ==
  IF superseded(current, spinId)
  THEN Reply(0, current)
  ELSE IF IsNull(current.spin.winnerParticipantId) \/ IsNull(current.spin.spinId)
  THEN Reply(0, current)
  ELSE
    LET resolvedAt == toISOString(nowTs)
        winnerParticipantId == resolvedWinner(current)
        completedSpinId == Val(current.spin.spinId)
        ps == current.participants
        activeIds == {p.id : p \in {q \in Range(ps) : q.active}}
        previousCounters == [id \in activeIds |-> ById(ps, id).spinsSinceLastWon]
        counted == countSpin(ps, winnerParticipantId)
        updatedParticipants == Actives(counted)
        item == [id |-> completedSpinId, createdAt |-> resolvedAt,
                 participants |-> cloneParticipants(Actives(counted)),
                 winnerParticipantId |-> winnerParticipantId]
        next ==
          [current EXCEPT
             !.spin = [@ EXCEPT !.status = "idle", !.resolvedAt = Some(resolvedAt)],
             !.participants = counted,
             !.spinHistory = SliceLast(Append(@, item), MAX_SPIN_HISTORY_ITEMS),
             !.pendingResultSpinId = Some(completedSpinId),
             !.pendingResultCounters = Some(previousCounters),
             !.pendingResultExpiresAt =
                Some(toISOString(nowTs + PENDING_RESULT_TTL_MS)),
             !.version = @ + 1]
    IN Saved(0, next,
             <<Event("spin.resolved", next.version, [spin |-> next.spin])>>
             \o [i \in 1..Len(updatedParticipants) |->
                   Event("participant.updated", next.version,
                         [participant |-> updatedParticipants[i]])])

\* ---------------------------------------------------------- GET /history
listHistory(current) == Reverse(cloneSpinHistory(current.spinHistory))

\* ------------------------------------------ POST /history/:spinId/save
saveSpinAnyId(current, spinId) ==
  LET next == bumpAndSave(
                [current EXCEPT !.pendingResultSpinId = Null,
                                !.pendingResultCounters = Null,
                                !.pendingResultExpiresAt = Null])
  IN Saved(204, next,
           <<Event("spin.result.dismissed", next.version,
                   [spinId |-> spinId, action |-> "save"])>>)

saveSpin(current, spinId) ==
  IF current.pendingResultSpinId = Some(spinId)
  THEN LET next == bumpAndSave(
                     [current EXCEPT !.pendingResultSpinId = Null,
                                     !.pendingResultCounters = Null,
                                     !.pendingResultExpiresAt = Null])
       IN Saved(204, next,
                <<Event("spin.result.dismissed", next.version,
                        [spinId |-> spinId, action |-> "save"])>>)
  ELSE Reply(204, current)

\* --------------------------------------------- DELETE /history/:spinId
isPendingExpiredNever(current, nowTs) ==
  /\ ~IsNull(current.pendingResultExpiresAt)
  /\ DateParse(Val(current.pendingResultExpiresAt)) > 0
  /\ DateParse(Val(current.pendingResultExpiresAt)) < 0

isPendingExpired(current, nowTs) ==
  /\ ~IsNull(current.pendingResultExpiresAt)
  /\ DateParse(Val(current.pendingResultExpiresAt)) > 0
  /\ DateParse(Val(current.pendingResultExpiresAt)) < nowTs

revertCountersOfWinner(ps, counters) ==
  [i \in 1..Len(ps) |->
     IF ps[i].id \in DOMAIN counters /\ ps[i].spinsSinceLastWon = 0
     THEN [ps[i] EXCEPT !.spinsSinceLastWon = Max(0, counters[ps[i].id])]
     ELSE ps[i]]

\* the loop that writes pendingResultCounters back into the roster
revertCounters(ps, counters) ==
  [i \in 1..Len(ps) |->
     IF ps[i].id \in DOMAIN counters
     THEN [ps[i] EXCEPT !.spinsSinceLastWon = Max(0, counters[ps[i].id])]
     ELSE ps[i]]

\* a discard that drops the newest history item, whatever its id
withoutNewest(history, spinId) == SliceFirst(history, Len(history) - 1)

\* `current.spinHistory.filter((item) => item.id !== spinId)`
withoutSpin(history, spinId) ==
  SeqFilter(history, {h \in Range(history) : h.id # spinId})

\* a discard that clears whatever pending result there is
clearsPendingAlways(current, spinId, expired) == TRUE

\* `current.pendingResultSpinId === spinId || isPendingExpired`
clearsPending(current, spinId, expired) ==
  current.pendingResultSpinId = Some(spinId) \/ expired

discardSpin(current, spinId, nowTs) ==
  LET expired == isPendingExpired(current, nowTs)
      hadPendingResult ==
        /\ current.pendingResultSpinId = Some(spinId)
        /\ ~expired
        /\ ~IsNull(current.pendingResultCounters)
      counters == Val(current.pendingResultCounters)
      ps == current.participants
      reverted == IF hadPendingResult THEN revertCounters(ps, counters) ELSE ps
      revertedParticipants ==
        IF hadPendingResult
        THEN SeqFilter(reverted, {p \in Range(reverted) : p.id \in DOMAIN counters})
        ELSE <<>>
      clear == clearsPending(current, spinId, expired)
      next == bumpAndSave(
        [current EXCEPT
           !.participants = reverted,
           !.spinHistory = withoutSpin(@, spinId),
           !.pendingResultSpinId = IF clear THEN Null ELSE @,
           !.pendingResultCounters = IF clear THEN Null ELSE @,
           !.pendingResultExpiresAt = IF clear THEN Null ELSE @])
  IN Saved(204, next,
           IF hadPendingResult
           THEN [i \in 1..Len(revertedParticipants) |->
                   Event("participant.updated", next.version,
                         [participant |-> revertedParticipants[i]])]
                \o <<Event("spin.result.dismissed", next.version,
                           [spinId |-> spinId, action |-> "discard"])>>
           ELSE <<>>)

\* ---------------------------------------------------------- POST /init
\* body.ownerParticipant is not read by the handler
init(body) ==
  LET groupName == validateName(body.group.name)
  IN IF IsNull(groupName)
     THEN [status |-> 400, save |-> FALSE]
     ELSE [status |-> 201, save |-> TRUE,
           state |-> [group |-> [body.group EXCEPT !.name = Val(groupName)],
                      participants |-> <<>>,
                      version |-> 0,
                      spin |-> DEFAULT_SPIN_STATE,
                      spinHistory |-> <<>>,
                      pendingResultSpinId |-> Null,
                      pendingResultCounters |-> Null,
                      pendingResultExpiresAt |-> Null]]


\* ================================================================ inputs
Ada == <<"A", "d", "a">>
AdaSpaced == <<" ", "a", "d", "a", " ">>
Bo == <<"B", "o">>
Cy == <<"C", " ", " ", "y">>
LongName == [i \in 1..(MaxNameLength + 1) |-> "x"]
MailA == <<" ", "a", "@", "b", ".", "c">>
MailBad == <<"a", "@", "b">>
OwnerEmail == <<"o", "@", "b", ".", "c">>
OwnerUserId == "U1"
GroupId == "G1"
OwnerParticipantId == 0

ManagerInputs == {Undefined, JBool(TRUE), JBool(FALSE)}
GroupNameInputs == {<<"G">>, <<" ">>}
DurationChoices == {4000}
ExtraTurnsChoices == {6}

AddBodies ==
  [name : {JStr(Ada), JStr(AdaSpaced), JStr(Bo), JStr(Cy)},
   emailId : {JNull, JStr(MailA)}, manager : {Undefined, JBool(TRUE)}]
  \cup {[name |-> JStr(LongName), emailId |-> Undefined, manager |-> Undefined],
        [name |-> Undefined, emailId |-> Undefined, manager |-> JBool(FALSE)],
        [name |-> JStr(Bo), emailId |-> JStr(MailBad), manager |-> JBool(TRUE)],
        [name |-> JStr(Bo), emailId |-> JNum(7), manager |-> JNum(1)]}
UpdateBodies ==
  [active : {Undefined}, emailId : {Undefined, JNull, JStr(MailA)},
   manager : ManagerInputs]
  \cup {[active |-> JBool(FALSE), emailId |-> Undefined, manager |-> Undefined],
        [active |-> JBool(TRUE), emailId |-> JStr(MailA), manager |-> JBool(TRUE)],
        [active |-> JNull, emailId |-> Undefined, manager |-> Undefined],
        [active |-> Undefined, emailId |-> JStr(MailBad), manager |-> Undefined],
        [active |-> Undefined, emailId |-> Undefined, manager |-> JNum(1)]}

ParticipantIdArgs == 0..MaxParticipantIds
SpinIdArgs == 1..(MaxSpins + 1)
\* (one more than MaxSockets: a broadcast that drops a subscriber needs
\* another one to go on to)
ClientIds == 1..(MaxSockets + 1)

\* ================================================================= state
VARIABLES
  storage,            \* state.storage[GROUP_STATE_KEY]: Null or Some(GroupState)
  sockets,            \* this.sockets: client ids in Map insertion order
  failing,            \* sockets whose send() throws
  wire,               \* per client: what socket.send has delivered (the snapshot's
                      \* version, the last delivery, the version before it, and
                      \* the spin ids of the spin.resolved events received)
  timers,             \* setTimeout callbacks not yet run
  now,                \* Date.now()
  ticks,              \* clock advances taken
  nextParticipantId,
  nextSpinId,
  nextClientId,
  response,           \* the last step: operation and HTTP status
  emitted,            \* the events broadcast by the last step
  inflight,           \* requests suspended at `await request.json()`
  ackedAdds,          \* participant ids returned by a 2xx add or commit
  ackedRemoves,       \* participant ids whose removal was answered 2xx
  commits,            \* requests that persisted a state since init
  preResolve,         \* set by a resolve: the roster and history it started from
  started,            \* the spin id and winner of every spin.started broadcast
  preCommit,          \* set by an accepted commit: the roster it was applied to
  kv,                 \* GROUP_INDEX_KV: the participant-group keys of the group
                      \* and its participant-index entry
  conn                \* the page's connectGroupRealtime closure and the
                      \* WebSockets it created

vars == <<storage, sockets, failing, wire, timers, now, ticks,
          nextParticipantId, nextSpinId, nextClientId, response, emitted,
          inflight, ackedAdds, ackedRemoves, commits, preResolve,
          started, preCommit, kv, conn>>

\* ------------------------------- connectGroupRealtime (lib/wheel.ts)
\* the closure's variables socket, reconnectTimer, reconnectAttempt and
\* isClosed, the last status given to onStatusChange, the timeout the
\* browser holds (`armed`, its delay) and the WebSockets created so far
\* whose close event has not fired yet
Min(a, b) == IF a <= b THEN a ELSE b

\* a clearReconnectTimer that leaves the timeout running
clearReconnectTimerNot(c) == c

clearReconnectTimer(c) ==
  IF c.reconnectTimer # Null
  THEN [c EXCEPT !.reconnectTimer = Null, !.armed = Null]
  ELSE c

\* Math.min(1000 * 2 ** Math.max(reconnectAttempt - 1, 0), 10000)
reconnectDelay(reconnectAttempt) ==
  Min(1000 * 2^Max(reconnectAttempt - 1, 0), 10000)

scheduleReconnect(c) ==
  IF c.isClosed THEN c
  ELSE
    LET attempt == c.reconnectAttempt + 1
        cleared == clearReconnectTimer(
                     [c EXCEPT !.reconnectAttempt = attempt,
                               !.status = "reconnecting"])
    IN [cleared EXCEPT !.reconnectTimer = Some(attempt),
                       !.armed = Some(reconnectDelay(attempt))]

connect(c) ==
  IF c.isClosed THEN c
  ELSE [c EXCEPT
          !.status = IF c.reconnectAttempt > 0 THEN "reconnecting" ELSE "connecting",
          !.created = @ + 1,
          !.socket = Some(c.created + 1),
          !.sockets = @ \cup {[id |-> c.created + 1, readyState |-> "connecting",
                               errored |-> FALSE]}]

\* WebSocket.close() on the socket `id`: it can no longer open and its close
\* event is still to come
closeSocket(c, id) ==
  [c EXCEPT !.sockets =
     {IF s.id = id THEN [s EXCEPT !.readyState = "closing"] ELSE s : s \in @}]

onopen(c) == [c EXCEPT !.reconnectAttempt = 0, !.status = "open"]

\* `socket?.close()` closes what the variable `socket` refers to
onerror(c) == IF c.socket = Null THEN c ELSE closeSocket(c, Val(c.socket))

onclose(c) ==
  LET c1 == [c EXCEPT !.socket = Null]
  IN IF c1.isClosed THEN [c1 EXCEPT !.status = "closed"]
     ELSE scheduleReconnect(c1)

\* the close() of the returned connection
close(c) ==
  LET c1 == clearReconnectTimer([c EXCEPT !.isClosed = TRUE])
      c2 == IF c1.socket # Null THEN closeSocket(c1, Val(c1.socket)) ELSE c1
  IN [c2 EXCEPT !.socket = Null, !.status = "closed"]

\* connectGroupRealtime has run: its variables are initialised and connect()
\* was called once
connectGroupRealtime ==
  connect([socket |-> Null, reconnectTimer |-> Null, armed |-> Null,
           reconnectAttempt |-> 0, isClosed |-> FALSE, status |-> "none",
           created |-> 0, sockets |-> {}])

\* the page's view before any event: no participants, lastVersionRef 0
NoClient == [participants |-> <<>>, lastVersion |-> 0]

NoWire ==
  [snapshot |-> Null, prev |-> Null, batch |-> <<>>, resolved |-> <<>>,
   client |-> NoClient, closed |-> 0]

Init ==
  /\ storage = Null
  /\ sockets = <<>>
  /\ failing = {}
  /\ wire = [c \in ClientIds |-> NoWire]
  /\ timers = {}
  /\ now = 1
  /\ ticks = 0
  /\ nextParticipantId = 1
  /\ nextSpinId = 1
  /\ nextClientId = 1
  /\ response = [op |-> "none", status |-> 0]
  /\ emitted = <<>>
  /\ inflight = {}
  /\ ackedAdds = {}
  /\ ackedRemoves = {}
  /\ commits = 0
  /\ preResolve = Null
  /\ started = {}
  /\ preCommit = Null
  /\ kv = [keys |-> {}, index |-> Null]
  /\ conn = connectGroupRealtime

Initialised == storage # Null
Persisted == Val(storage)

\* version of the last non-snapshot event of a batch, or `prev`
LastVersion(w) ==
  IF w.batch # <<>> /\ w.batch[Len(w.batch)].type # "snapshot"
  THEN Some(w.batch[Len(w.batch)].version)
  ELSE w.prev

\* the spin id and winner carried by the spin.started events among `events`
Started(events) ==
  {[spinId |-> Val(events[i].payload.spin.spinId),
    winnerParticipantId |-> Val(events[i].payload.spin.winnerParticipantId)] :
     i \in {j \in 1..Len(events) : events[j].type = "spin.started"}}

\* the spin ids of the spin.resolved events among `events`
RECURSIVE ResolvedIds(_)
ResolvedIds(events) ==
  IF events = <<>> THEN <<>>
  ELSE IF Head(events).type = "spin.resolved"
       THEN <<Val(Head(events).payload.spin.spinId)>> \o ResolvedIds(Tail(events))
       ELSE ResolvedIds(Tail(events))

\* dedupeParticipantsById([...current, participant])
dedupeAppend(current, participant) ==
  IF participant.id \in Ids(current) THEN current ELSE Append(current, participant)

\* the page drops an event that is no snapshot and is older than the last
\* version it saw
dropsEvent(client, event) ==
  event.type # "snapshot" /\ event.version < client.lastVersion

\* applyRealtimeEvent, as far as the participants query and lastVersionRef go
applyRealtimeEvent(client, event) ==
  IF dropsEvent(client, event) THEN client
  ELSE
    [lastVersion |-> Max(client.lastVersion, event.version),
     participants |->
       IF event.type = "snapshot" THEN event.payload.participants
       ELSE IF event.type = "participant.added"
       THEN dedupeAppend(client.participants, event.payload.participant)
       ELSE IF event.type = "participant.updated"
       THEN [i \in 1..Len(client.participants) |->
               IF client.participants[i].id = event.payload.participant.id
               THEN event.payload.participant
               ELSE client.participants[i]]
       ELSE IF event.type = "participant.removed"
       THEN Without(client.participants, {event.payload.participantId})
       ELSE client.participants]

\* the socket's message listener, once per delivered event
RECURSIVE applyEvents(_, _)
applyEvents(client, events) ==
  IF events = <<>> THEN client
  ELSE applyEvents(applyRealtimeEvent(client, Head(events)), Tail(events))

\* a broadcast that gives up at a send that throws: nobody is dropped and
\* nobody receives the events
BroadcastGivesUp(events) ==
  IF events = <<>> \/ Range(sockets) \cap failing # {}
  THEN UNCHANGED <<sockets, wire>>
  ELSE /\ UNCHANGED sockets
       /\ wire' = [c \in ClientIds |->
                     IF c \in Range(sockets)
                     THEN [wire[c] EXCEPT !.prev = LastVersion(wire[c]),
                                          !.batch = events,
                                          !.resolved = @ \o ResolvedIds(events),
                                          !.client = applyEvents(@, events)]
                     ELSE wire[c]]

\* broadcast(event) for each event of `events`: send() delivers to every
\* socket of the Map; a socket whose send throws is deleted from the Map
\* and closed with code 1011
Broadcast(events) ==
  IF events = <<>>
  THEN UNCHANGED <<sockets, wire>>
  ELSE /\ sockets' = SeqFilter(sockets, Range(sockets) \ failing)
       /\ wire' = [c \in ClientIds |->
                     IF c \in Range(sockets) \ failing
                     THEN [wire[c] EXCEPT !.prev = LastVersion(wire[c]),
                                          !.batch = events,
                                          !.resolved = @ \o ResolvedIds(events),
                                          !.client = applyEvents(@, events)]
                     ELSE IF c \in Range(sockets)
                     THEN [wire[c] EXCEPT !.closed = 1011]
                     ELSE wire[c]]

\* a handler that broadcasts the events of `r` and stores nothing
DeliverUnsaved(r) ==
  /\ storage' = storage
  /\ Broadcast(r.events)
  /\ emitted' = r.events
  /\ preResolve' = Null
  /\ started' = started \cup Started(r.events)
  /\ timers' = IF IsNull(r.timer) THEN timers ELSE timers \cup {Val(r.timer)}
  /\ ackedAdds' = ackedAdds \cup r.created
  /\ ackedRemoves' = ackedRemoves \cup r.removed
  /\ commits' = IF r.save THEN commits + 1 ELSE commits

\* the effects of one handler run `r` on the object and its subscribers
Deliver(r) ==
  /\ storage' = IF r.save THEN Some(r.state) ELSE storage
  /\ Broadcast(r.events)
  /\ emitted' = r.events
  /\ preResolve' = Null
  /\ started' = started \cup Started(r.events)
  /\ timers' = IF IsNull(r.timer) THEN timers ELSE timers \cup {Val(r.timer)}
  /\ ackedAdds' = ackedAdds \cup r.created
  /\ ackedRemoves' = ackedRemoves \cup r.removed
  /\ commits' = IF r.save THEN commits + 1 ELSE commits

\* the effects of one handler run `r` of operation `op`, answered as it is
Finish(op, r) ==
  /\ Deliver(r)
  /\ response' = [op |-> op, status |-> r.status]

\* the explored runs persist at most MaxVersion states: without overlapping
\* requests `commits` equals the stored version
InBounds == commits <= MaxVersion


\* --------------------------------------------- the router's index store
\* normalizeEmail: trim and lower-case
normalizeEmail(email) == ToLowerCase(Trim(email))

\* parseEmailsFromIndex on what syncParticipantGroupIndex stored
parseEmailsFromIndex(raw) ==
  IF IsNull(raw) THEN {} ELSE {normalizeEmail(e) : e \in Val(raw)}

\* the points at which GROUP_INDEX_KV may throw during one sync: never, at
\* the get, at the first delete, at the first put of a key, at the put of
\* the index
KvFailures == {"none", "get", "delete", "put", "index"}

\* syncParticipantGroupIndex; what was written before the throw stays
syncParticipantGroupIndex(store, participants, failAt) ==
  LET previousEmails == parseEmailsFromIndex(store.index)
      nextEmails ==
        {normalizeEmail(Val(p.emailId)) :
           p \in {q \in Range(participants) :
                    ~IsNull(q.emailId) /\ Trim(Val(q.emailId)) # <<>>}}
      stale == previousEmails \ nextEmails
      fresh == nextEmails \ previousEmails
      afterDeletes == [store EXCEPT !.keys = @ \ stale]
      afterPuts == [afterDeletes EXCEPT !.keys = @ \cup fresh]
  IN IF failAt = "get" THEN [kv |-> store, threw |-> TRUE]
     ELSE IF failAt = "delete" /\ stale # {} THEN [kv |-> store, threw |-> TRUE]
     ELSE IF failAt = "put" /\ fresh # {}
     THEN [kv |-> afterDeletes, threw |-> TRUE]
     ELSE IF failAt = "index" THEN [kv |-> afterPuts, threw |-> TRUE]
     ELSE [kv |-> [afterPuts EXCEPT !.index = Some(nextEmails)],
           threw |-> FALSE]


\* ============================================================== actions
\* router POST /groups: builds the group and the owner's participant and
\* posts both to the object's /init
CreateGroup(name) ==
  /\ ~Initialised
  /\ LET group == [id |-> GroupId, name |-> name, createdAt |-> toISOString(now),
                   ownerUserId |-> OwnerUserId, ownerEmail |-> OwnerEmail,
                   ownerParticipantId |-> OwnerParticipantId]
         ownerParticipant ==
           [id |-> OwnerParticipantId, name |-> <<"o">>, active |-> TRUE,
            emailId |-> Some(OwnerEmail), manager |-> TRUE,
            spinsSinceLastWon |-> 0]
         r == init([group |-> group, ownerParticipant |-> ownerParticipant])
     IN /\ storage' = IF r.save THEN Some(r.state) ELSE storage
        /\ response' = [op |-> "init", status |-> r.status]
        /\ kv' = IF r.save
                 THEN syncParticipantGroupIndex(kv, <<ownerParticipant>>, "none").kv
                 ELSE kv
        /\ UNCHANGED conn
  /\ emitted' = <<>>
  /\ preResolve' = Null
  /\ UNCHANGED started
  /\ preCommit' = Null
  /\ UNCHANGED <<sockets, failing, wire, timers, now, ticks, nextParticipantId,
                 nextSpinId, nextClientId, inflight, ackedAdds, ackedRemoves,
                 commits>>

\* the participant handlers run on a loaded copy; Run* is the part after
\* `await request.json()`
RunAdd(current, body) ==
  \E r \in {addParticipant(current, body, nextParticipantId)} :
     /\ Finish("addParticipant", r)
     /\ preCommit' = Null
     /\ UNCHANGED <<kv, conn>>
     /\ nextParticipantId' = nextParticipantId + Cardinality(r.created)
     /\ UNCHANGED <<failing, now, ticks, nextSpinId, nextClientId>>

RunUpdate(current, participantId, body) ==
  /\ \E r \in {updateParticipant(current, participantId, body)} :
       Finish("updateParticipant", r)
  /\ preCommit' = Null
  /\ UNCHANGED <<kv, conn>>
  /\ UNCHANGED <<failing, now, ticks, nextParticipantId, nextSpinId, nextClientId>>

RunCommit(current, body) ==
  \E r \in {commitParticipants(current, body, nextParticipantId)} :
     /\ Finish("commitParticipants", r)
     /\ preCommit' = IF r.save THEN Some(current.participants) ELSE Null
     /\ UNCHANGED <<kv, conn>>
     /\ nextParticipantId' = nextParticipantId + Cardinality(r.created)
     /\ UNCHANGED <<failing, now, ticks, nextSpinId, nextClientId>>

AddParticipant(body) ==
  /\ Initialised
  /\ RunAdd(loadState(Persisted), body)
  /\ UNCHANGED inflight

UpdateParticipant(participantId, body) ==
  /\ Initialised
  /\ RunUpdate(loadState(Persisted), participantId, body)
  /\ UNCHANGED inflight

RemoveParticipant(participantId) ==
  /\ Initialised
  /\ Finish("removeParticipant", removeParticipant(loadState(Persisted), participantId))
  /\ preCommit' = Null
  /\ UNCHANGED <<kv, conn>>
  /\ UNCHANGED <<failing, now, ticks, nextParticipantId, nextSpinId,
                 nextClientId, inflight>>

\* Math.random() * totalWeight lies in [0, totalWeight)
Draws(current) ==
  LET w == totalWeight(Actives(current.participants))
  IN IF w > 0 THEN 0..(w - 1) ELSE {0}

RequestSpin(draw, durationMs, extraTurns) ==
  /\ Initialised
  /\ draw \in Draws(loadState(Persisted))
  /\ \E r \in {requestSpin(loadState(Persisted), draw, nextSpinId, durationMs,
                          extraTurns, now)} :
        /\ Finish("requestSpin", r)
        /\ preCommit' = Null
        /\ UNCHANGED <<kv, conn>>
        /\ nextSpinId' = IF r.save THEN nextSpinId + 1 ELSE nextSpinId
  /\ UNCHANGED <<failing, now, ticks, nextParticipantId, nextClientId, inflight>>

\* the setTimeout callback of a started spin; it runs no earlier than `due`
ResolveSpin(timer) ==
  /\ timer \in timers
  /\ Initialised
  /\ timers' = timers \ {timer}
  /\ now' = Max(now, timer.due)
  /\ UNCHANGED started
  /\ preCommit' = Null
  /\ UNCHANGED <<kv, conn>>
  /\ \E r \in {resolveSpin(loadState(Persisted), timer.spinId, now')} :
        /\ storage' = IF r.save THEN Some(r.state) ELSE storage
        /\ Broadcast(r.events)
        /\ emitted' = r.events
        /\ preResolve' =
             IF r.save
             THEN Some([participants |-> Persisted.participants,
                        spinHistory |-> Persisted.spinHistory])
             ELSE Null
        /\ response' = [op |-> "resolveSpin", status |-> r.status]
        /\ commits' = IF r.save THEN commits + 1 ELSE commits
  /\ UNCHANGED <<failing, ticks, nextParticipantId, nextSpinId, nextClientId,
                 inflight, ackedAdds, ackedRemoves>>

SaveSpin(spinId) ==
  /\ Initialised
  /\ Finish("saveSpin", saveSpin(loadState(Persisted), spinId))
  /\ preCommit' = Null
  /\ UNCHANGED <<kv, conn>>
  /\ UNCHANGED <<failing, now, ticks, nextParticipantId, nextSpinId,
                 nextClientId, inflight>>

DiscardSpin(spinId) ==
  /\ Initialised
  /\ Finish("discardSpin", discardSpin(loadState(Persisted), spinId, now))
  /\ preCommit' = Null
  /\ UNCHANGED <<kv, conn>>
  /\ UNCHANGED <<failing, now, ticks, nextParticipantId, nextSpinId,
                 nextClientId, inflight>>

\* GET /ws and acceptSocket: register the socket, then send the snapshot
Subscribe ==
  /\ Initialised
  /\ LET current == loadState(Persisted)
         clientId == nextClientId
         snapshotEvent ==
           Event("snapshot", current.version,
                 [group |-> current.group,
                  participants |-> current.participants,
                  spin |-> current.spin])
     IN /\ sockets' = IF clientId \in failing THEN sockets
                      ELSE Append(sockets, clientId)
        /\ wire' = [wire EXCEPT ![clientId] =
                      IF clientId \in failing THEN @
                      ELSE [snapshot |-> Some(current.version), prev |-> Null,
                            batch |-> <<snapshotEvent>>, resolved |-> <<>>,
                            client |-> applyRealtimeEvent(NoClient,
                                                          snapshotEvent),
                            closed |-> 0]]
        /\ response' = [op |-> "subscribe", status |-> 101]
  /\ nextClientId' = nextClientId + 1
  /\ emitted' = <<>>
  /\ preResolve' = Null
  /\ UNCHANGED started
  /\ preCommit' = Null
  /\ UNCHANGED <<kv, conn>>
  /\ UNCHANGED <<storage, failing, timers, now, ticks, nextParticipantId,
                 nextSpinId, inflight, ackedAdds, ackedRemoves, commits>>

\* the socket's close or error listener
CloseSocket(clientId) ==
  /\ clientId \in Range(sockets)
  /\ sockets' = SeqFilter(sockets, Range(sockets) \ {clientId})
  /\ response' = [op |-> "close", status |-> 0]
  /\ emitted' = <<>>
  /\ preResolve' = Null
  /\ UNCHANGED started
  /\ preCommit' = Null
  /\ UNCHANGED <<kv, conn>>
  /\ UNCHANGED <<storage, failing, wire, timers, now, ticks, nextParticipantId,
                 nextSpinId, nextClientId, inflight, ackedAdds, ackedRemoves,
                 commits>>

\* the peer of a socket goes away: the next send() on it throws
BreakSocket(clientId) ==
  /\ clientId \in Range(sockets) \ failing
  /\ failing' = failing \cup {clientId}
  /\ response' = [op |-> "break", status |-> 0]
  /\ emitted' = <<>>
  /\ preResolve' = Null
  /\ UNCHANGED started
  /\ preCommit' = Null
  /\ UNCHANGED <<kv, conn>>
  /\ UNCHANGED <<storage, sockets, wire, timers, now, ticks, nextParticipantId,
                 nextSpinId, nextClientId, inflight, ackedAdds, ackedRemoves,
                 commits>>

\* the clock advances by one TTL
Tick ==
  /\ ticks' = ticks + 1
  /\ now' = now + PENDING_RESULT_TTL_MS
  /\ response' = [op |-> "tick", status |-> 0]
  /\ emitted' = <<>>
  /\ preResolve' = Null
  /\ UNCHANGED started
  /\ preCommit' = Null
  /\ UNCHANGED <<kv, conn>>
  /\ UNCHANGED <<storage, sockets, failing, wire, timers, nextParticipantId,
                 nextSpinId, nextClientId, inflight, ackedAdds, ackedRemoves,
                 commits>>

\* POST /participants/commit, atomic
\* GET /history: the response body is the stored history, reversed
ListHistory ==
  /\ response' =
       IF Initialised
       THEN [op |-> "listHistory", status |-> 200,
             body |-> listHistory(loadState(Persisted))]
       ELSE [op |-> "listHistory", status |-> 404]
  /\ emitted' = <<>>
  /\ preResolve' = Null
  /\ preCommit' = Null
  /\ UNCHANGED <<kv, conn>>
  /\ UNCHANGED <<storage, sockets, failing, wire, timers, now, ticks,
                 nextParticipantId, nextSpinId, nextClientId, inflight,
                 ackedAdds, ackedRemoves, commits, started>>

CommitParticipants(body) ==
  /\ Initialised
  /\ RunCommit(loadState(Persisted), body)
  /\ UNCHANGED inflight

\* --------------------------------------- requests that carry a body
\* POST /participants, PATCH /participants/:id and POST /participants/commit
\* load the state and then wait for `await request.json()`; other requests
\* and timers run while they wait, and the handler goes on with the copy it
\* loaded
Begin(op, participantId, body) ==
  /\ Initialised
  /\ inflight' = inflight \cup
       {[op |-> op, current |-> loadState(Persisted),
         participantId |-> participantId, body |-> body]}
  /\ inflight' # inflight
  /\ response' = [op |-> "await", status |-> 0]
  /\ emitted' = <<>>
  /\ preResolve' = Null
  /\ UNCHANGED started
  /\ preCommit' = Null
  /\ UNCHANGED <<kv, conn>>
  /\ UNCHANGED <<storage, sockets, failing, wire, timers, now, ticks,
                 nextParticipantId, nextSpinId, nextClientId, ackedAdds,
                 ackedRemoves, commits>>

BeginAdd(body) == Begin("addParticipant", 0, body)
BeginUpdate(participantId, body) == Begin("updateParticipant", participantId, body)
BeginCommit(body) == Begin("commitParticipants", 0, body)

CompleteAdd(req) ==
  /\ req \in inflight /\ req.op = "addParticipant"
  /\ RunAdd(req.current, req.body)
  /\ inflight' = inflight \ {req}

CompleteUpdate(req) ==
  /\ req \in inflight /\ req.op = "updateParticipant"
  /\ RunUpdate(req.current, req.participantId, req.body)
  /\ inflight' = inflight \ {req}

CompleteCommit(req) ==
  /\ req \in inflight /\ req.op = "commitParticipants"
  /\ RunCommit(req.current, req.body)
  /\ inflight' = inflight \ {req}

\* ----------------------------------------------------- commit inputs
JArr(xs) == [t |-> "array", v |-> xs]
JId(id) == JStr(id)

PlainAdd(name) == [name |-> JStr(name), emailId |-> Undefined, manager |-> Undefined]

CommitAddEntries ==
  {[name |-> JStr(Ada), emailId |-> Undefined, manager |-> Undefined],
   [name |-> JStr(AdaSpaced), emailId |-> JStr(MailA), manager |-> JBool(TRUE)],
   [name |-> JStr(Bo), emailId |-> JNull, manager |-> JBool(TRUE)]}
CommitUpdateEntries ==
  {[participantId |-> JId(id), emailId |-> e, manager |-> m] :
     id \in 1..2, e \in {JNull, JStr(MailA)}, m \in {Undefined, JBool(TRUE)}}
UpTo1(S) == {<<>>} \cup {<<x>> : x \in S}
UpTo2(S) == UpTo1(S) \cup {<<x, y>> : x \in S, y \in S}

CommitBodies ==
  {[adds |-> JArr(a), updates |-> Undefined, removes |-> JArr(r)] :
      a \in UpTo2(CommitAddEntries), r \in {<<>>, <<JId(1)>>}}
  \cup
  {[adds |-> JArr(<<>>), updates |-> JArr(u), removes |-> JArr(r)] :
      u \in UpTo1(CommitUpdateEntries), r \in {<<>>, <<JId(1)>>}}
  \cup
  {[adds |-> JArr(<<>>), updates |-> JArr(<<>>), removes |-> JArr(r)] :
      r \in {<<JId(OwnerParticipantId)>>, <<JId(2), JId(2)>>, <<JNum(1)>>}}
  \cup
  {[adds |-> JArr(<<PlainAdd(Cy)>>), updates |-> JArr(u), removes |-> JNull] :
      u \in {<<>>, <<[participantId |-> JId(1), emailId |-> JStr(MailA),
                      manager |-> JBool(TRUE)]>>}}
  \cup
  {[adds |-> JArr(<<>>), updates |-> JArr(<<u, u>>), removes |-> JArr(<<>>)] :
      u \in {[participantId |-> JId(1), emailId |-> JNull, manager |-> Undefined]}}
  \cup
  {[adds |-> JArr(<<PlainAdd(Ada)>>),
    updates |-> JArr(<<[participantId |-> JId(2), emailId |-> JStr(MailA),
                        manager |-> JBool(TRUE)]>>),
    removes |-> JArr(<<JId(1)>>)]}
  \cup
  {[adds |-> JStr(<<>>), updates |-> JArr(<<>>), removes |-> JArr(<<>>)]}

\* ------------------------------------------------------ specifications
\* the roster operations of one group
IdsLeft(n) == nextParticipantId + n - 1 <= MaxParticipantIds

NextRoster ==
  \/ \E name \in GroupNameInputs : CreateGroup(name)
  \/ IdsLeft(1) /\ (\E body \in AddBodies : AddParticipant(body)) /\ InBounds'
  \/ (\E id \in ParticipantIdArgs, body \in UpdateBodies :
        UpdateParticipant(id, body)) /\ InBounds'
  \/ (\E id \in ParticipantIdArgs : RemoveParticipant(id)) /\ InBounds'
  \/ IdsLeft(2) /\ (\E body \in CommitBodies : CommitParticipants(body))
       /\ InBounds'

SpecRoster == Init /\ [][NextRoster]_vars


\* the spin life cycle on a roster built from plain participants
SpinAddBodies == {PlainAdd(Cy)}
SpinUpdateBodies ==
  {[active |-> JBool(b), emailId |-> Undefined, manager |-> Undefined] :
     b \in BOOLEAN}
SpinCommitBodies ==
  {[adds |-> JArr(<<PlainAdd(Ada), PlainAdd(Bo)>>), updates |-> Undefined,
    removes |-> Undefined]}

MaxDraw == MaxParticipantIds * (MaxSpins + 1)

NextSpin ==
  \/ \E name \in GroupNameInputs : CreateGroup(name)
  \/ IdsLeft(1) /\ (\E body \in SpinAddBodies : AddParticipant(body)) /\ InBounds'
  \/ IdsLeft(2) /\ (\E body \in SpinCommitBodies : CommitParticipants(body))
       /\ InBounds'
  \/ (\E id \in ParticipantIdArgs, body \in SpinUpdateBodies :
        UpdateParticipant(id, body)) /\ InBounds'
  \/ (\E id \in ParticipantIdArgs : RemoveParticipant(id)) /\ InBounds'
  \/ nextSpinId <= MaxSpins
       /\ (\E draw \in 0..MaxDraw, d \in DurationChoices, e \in ExtraTurnsChoices :
             RequestSpin(draw, d, e))
       /\ InBounds'
  \/ \E timer \in timers : ResolveSpin(timer)
  \/ (\E spinId \in SpinIdArgs : SaveSpin(spinId)) /\ InBounds'
  \/ (\E spinId \in SpinIdArgs : DiscardSpin(spinId)) /\ InBounds'
  \/ ticks < MaxTicks /\ Tick

SpecSpin == Init /\ [][NextSpin]_vars

\* the spin life cycle continued until the history has been filled: beyond
\* the short runs of NextSpin, the two participants of the first commit keep
\* spinning with the draw 0 while every earlier result is still in the history
MaxLongRunSpins == MAX_SPIN_HISTORY_ITEMS + 1

KeptAll ==
  /\ Initialised
  /\ ticks = 0
  /\ nextParticipantId = 3 /\ ackedRemoves = {}
  /\ Len(Persisted.participants) = 2
  /\ \A p \in Range(Persisted.participants) : p.active
  /\ LET resolved == nextSpinId - 1
                       - (IF Persisted.spin.status = "spinning" THEN 1 ELSE 0)
     IN Len(Persisted.spinHistory) =
          IF resolved > MAX_SPIN_HISTORY_ITEMS THEN MAX_SPIN_HISTORY_ITEMS
          ELSE resolved

NextLongRun ==
  \/ KeptAll /\ nextSpinId <= MaxLongRunSpins
       /\ \E d \in DurationChoices, e \in ExtraTurnsChoices : RequestSpin(0, d, e)
  \/ KeptAll /\ Persisted.pendingResultSpinId # Null
       /\ DiscardSpin(Val(Persisted.pendingResultSpinId))
  \/ KeptAll /\ ListHistory

NextHistory == NextSpin \/ NextLongRun

SpecHistory == Init /\ [][NextHistory]_vars

\* overlapping requests of one group with a subscriber listening
MaxInflight == 2

AsyncAddBodies == {PlainAdd(Ada), PlainAdd(Bo)}
AsyncUpdateBodies ==
  {[active |-> JBool(FALSE), emailId |-> Undefined, manager |-> Undefined]}
AsyncCommitBodies ==
  {[adds |-> JArr(<<PlainAdd(Ada), PlainAdd(Cy)>>), updates |-> Undefined,
    removes |-> Undefined]}
AsyncUpdateIds == {1}
CanBegin == Cardinality(inflight) < MaxInflight

NextAsync ==
  \/ \E name \in GroupNameInputs : CreateGroup(name)
  \/ CanBegin /\ \E body \in AsyncAddBodies : BeginAdd(body)
  \/ CanBegin /\ \E id \in AsyncUpdateIds, body \in AsyncUpdateBodies :
       BeginUpdate(id, body)
  \/ CanBegin /\ \E body \in AsyncCommitBodies : BeginCommit(body)
  \/ IdsLeft(1) /\ (\E req \in inflight : CompleteAdd(req)) /\ InBounds'
  \/ (\E req \in inflight : CompleteUpdate(req)) /\ InBounds'
  \/ IdsLeft(2) /\ (\E req \in inflight : CompleteCommit(req)) /\ InBounds'
  \/ (\E id \in ParticipantIdArgs : RemoveParticipant(id)) /\ InBounds'
  \/ nextClientId <= MaxSockets /\ Subscribe

SpecAsync == Init /\ [][NextAsync]_vars

\* a spin among overlapping requests, with its timer and every suspended
\* request eventually running
LiveRemoveIds == {2}

CompletesUpdate == (\E req \in inflight : CompleteUpdate(req)) /\ InBounds'
TimerFires == \E timer \in timers : ResolveSpin(timer)

NextLive ==
  \/ \E name \in GroupNameInputs : CreateGroup(name)
  \/ IdsLeft(2) /\ (\E body \in SpinCommitBodies : CommitParticipants(body))
       /\ InBounds'
  \/ CanBegin /\ \E id \in AsyncUpdateIds, body \in AsyncUpdateBodies :
       BeginUpdate(id, body)
  \/ CompletesUpdate
  \/ (\E id \in LiveRemoveIds : RemoveParticipant(id)) /\ InBounds'
  \/ nextSpinId <= MaxSpins
       /\ (\E d \in DurationChoices, e \in ExtraTurnsChoices : RequestSpin(0, d, e))
       /\ InBounds'
  \/ TimerFires
  \/ (\E spinId \in SpinIdArgs : SaveSpin(spinId)) /\ InBounds'
  \/ (\E spinId \in SpinIdArgs : DiscardSpin(spinId)) /\ InBounds'
  \/ nextClientId <= MaxSockets /\ Subscribe

SpecLive ==
  Init /\ [][NextLive]_vars /\ WF_vars(TimerFires) /\ WF_vars(CompletesUpdate)

\* ================================================================ claims
Roster == Persisted.participants

\* C2: in every reachable state of a group no two participants have names
\* that are equal case-insensitively, and every manager has an emailId.
C2_NamesUniqueManagersHaveEmail ==
  Initialised =>
    /\ \A i, j \in 1..Len(Roster) :
         i # j => ToLowerCase(Roster[i].name) # ToLowerCase(Roster[j].name)
    /\ \A i \in 1..Len(Roster) : Roster[i].manager => ~IsNull(Roster[i].emailId)

\* C2 witness: a duplicate name was just refused (409) on a roster that
\* holds several participants, one of them a manager.
C2_Witness ==
  /\ Initialised
  /\ Len(Roster) >= 2
  /\ \E p \in Range(Roster) : p.manager
  /\ response.status = 409

\* C6: the participant whose id is group.ownerParticipantId is in the
\* roster, active, a manager, with emailId = group.ownerEmail.
C6_OwnerPresent ==
  Initialised =>
    \E p \in Range(Roster) :
      /\ p.id = Persisted.group.ownerParticipantId
      /\ p.active
      /\ p.manager
      /\ p.emailId = Some(Persisted.group.ownerEmail)

\* C7: a remove, a commit remove and an update of e-mail or manager flag
\* aimed at the owner's participant are rejected: the owner's participant
\* stays in the roster and the stored state and the event stream are as before.
OwnerTargeted ==
  \/ RemoveParticipant(OwnerParticipantId)
  \/ \E body \in UpdateBodies :
       /\ body.emailId # Undefined \/ body.manager # Undefined
       /\ UpdateParticipant(OwnerParticipantId, body)
  \/ \E body \in CommitBodies :
       /\ body.removes = JArr(<<JId(OwnerParticipantId)>>)
       /\ CommitParticipants(body)

Resolves == (\E timer \in timers : ResolveSpin(timer)) /\ storage' # storage

C3_ResolveCounters ==
  [][Resolves =>
       LET before == Roster
           after == Val(storage').participants
           winner == Persisted.spin.winnerParticipantId
       IN /\ Len(after) = Len(before)
          /\ \A i \in 1..Len(before) :
               /\ after[i].id = before[i].id
               /\ after[i].spinsSinceLastWon =
                    IF ~before[i].active THEN before[i].spinsSinceLastWon
                    ELSE IF Some(before[i].id) = winner THEN 0
                    ELSE before[i].spinsSinceLastWon + 1]_vars

\* C3 witness: a spin has just resolved on a roster that held an inactive
\* participant, the active winner and another active participant, whose
\* counter is now one higher.
C3_Witness ==
  /\ response.op = "resolveSpin"
  /\ preResolve # Null
  /\ \E p, q, r \in Range(Val(preResolve).participants) :
       /\ ~p.active
       /\ q.active /\ Some(q.id) = Persisted.spin.winnerParticipantId
       /\ r.active /\ r.id # q.id
       /\ ById(Roster, r.id).spinsSinceLastWon = r.spinsSinceLastWon + 1
       /\ ById(Roster, q.id).spinsSinceLastWon = 0
       /\ ById(Roster, p.id).spinsSinceLastWon = p.spinsSinceLastWon

\* C9: saveSpin with a spin id that is not the pending one (in particular a
\* second saveSpin(s) after the first cleared the pending result) answers 204,
\* leaves the stored group state, version included, as it is and emits no event.
C9_SaveIdempotent ==
  [][\A spinId \in SpinIdArgs :
       (SaveSpin(spinId) /\ Persisted.pendingResultSpinId # Some(spinId)) =>
          /\ response'.status = 204
          /\ storage' = storage
          /\ emitted' = <<>>]_vars

\* C9 witness: a saveSpin was just answered 204 without an event while no
\* result is pending, the clock has not advanced and the history still holds
\* the resolved spin: the pending result had been cleared by an earlier save.
C9_Witness ==
  /\ response = [op |-> "saveSpin", status |-> 204]
  /\ emitted = <<>>
  /\ Initialised
  /\ Persisted.pendingResultSpinId = Null
  /\ Persisted.spinHistory # <<>>
  /\ ticks = 0

\* C10: once the pending result has expired, saveSpin with the pending spin
\* id is a no-op: 204, no change of state or version, no event.
C10_SaveAfterExpiryNoOp ==
  [][\A spinId \in SpinIdArgs :
       (/\ SaveSpin(spinId)
        /\ Persisted.pendingResultSpinId = Some(spinId)
        /\ isPendingExpired(Persisted, now)) =>
          /\ response'.status = 204
          /\ storage' = storage
          /\ emitted' = <<>>]_vars

\* C8: discardSpin(s) on the unexpired pending result for s writes the
\* captured counters back to every listed participant still in the roster,
\* removes the history entry s and clears the pending result; directly after
\* the resolve of s the roster is what it was before the resolve, and so is
\* the history unless it already held MAX_SPIN_HISTORY_ITEMS entries, in
\* which case its oldest entry stays dropped.
DiscardsPending(spinId) ==
  /\ DiscardSpin(spinId)
  /\ Persisted.pendingResultSpinId = Some(spinId)
  /\ ~isPendingExpired(Persisted, now)

DiscardReverts(spinId) ==
  LET after == Val(storage')
      counters == Val(Persisted.pendingResultCounters)
  IN /\ Ids(after.participants) = Ids(Roster)
     /\ \A p \in Range(after.participants) :
          p.spinsSinceLastWon =
            IF p.id \in DOMAIN counters THEN counters[p.id]
            ELSE ById(Roster, p.id).spinsSinceLastWon
     /\ \A i \in 1..Len(after.spinHistory) : after.spinHistory[i].id # spinId
     /\ after.pendingResultSpinId = Null
     /\ after.pendingResultCounters = Null
     /\ after.pendingResultExpiresAt = Null

C8_DiscardRestores ==
  [][\A spinId \in (IF Initialised THEN Range(Persisted.pendingResultSpinId) ELSE {}) :
       DiscardsPending(spinId) =>
         /\ DiscardReverts(spinId)
         /\ preResolve # Null =>
              /\ Val(storage').participants = Val(preResolve).participants
              /\ Val(storage').spinHistory =
                   IF Len(Val(preResolve).spinHistory) = MAX_SPIN_HISTORY_ITEMS
                   THEN Tail(Val(preResolve).spinHistory)
                   ELSE Val(preResolve).spinHistory]_vars

\* C8 witness: the result of the spin that overflowed a full history has
\* just been discarded, with the events of a reverted pending result.
C8_Witness ==
  /\ response = [op |-> "discardSpin", status |-> 204]
  /\ emitted # <<>>
  /\ nextSpinId = MaxLongRunSpins + 1
  /\ Len(Persisted.spinHistory) = MAX_SPIN_HISTORY_ITEMS - 1
  /\ Persisted.spinHistory[1].id = 2
  /\ Persisted.pendingResultSpinId = Null

\* C8 as stated: directly after the resolve of s, discardSpin(s) leaves the
\* roster and the history equal to what they were just before the resolve.
C8_DiscardRestoresExactly ==
  [][\A spinId \in (IF Initialised THEN Range(Persisted.pendingResultSpinId) ELSE {}) :
       DiscardsPending(spinId) =>
         /\ DiscardReverts(spinId)
         /\ preResolve # Null =>
              /\ Val(storage').participants = Val(preResolve).participants
              /\ Val(storage').spinHistory = Val(preResolve).spinHistory]_vars

\* C1: overlapping requests leave the state a serial execution would leave:
\* every participant whose add was answered 2xx and whose removal was never
\* answered is in the stored roster, and the stored version counts the
\* requests that persisted a state.
C1_NoLostUpdate ==
  Initialised =>
    /\ (ackedAdds \ ackedRemoves) \subseteq Ids(Roster)
    /\ Persisted.version = commits

\* the events of the last delivery to a subscriber, the snapshot left out
Tail_(c) ==
  SeqFilter(wire[c].batch, {e \in Range(wire[c].batch) : e.type # "snapshot"})

\* C4: for every subscriber the versions of the events delivered after its
\* snapshot are strictly increasing, the events of one operation included.
C4_VersionsStrictlyIncrease ==
  \A c \in ClientIds :
    /\ \A i \in 1..(Len(Tail_(c)) - 1) :
         Tail_(c)[i].version < Tail_(c)[i + 1].version
    /\ (Tail_(c) # <<>> /\ wire[c].prev # Null) =>
         Val(wire[c].prev) < Tail_(c)[1].version

\* C4, weaker: the versions delivered to a subscriber never decrease.
C4_VersionsNeverDecrease ==
  \A c \in ClientIds :
    /\ \A i \in 1..(Len(Tail_(c)) - 1) :
         Tail_(c)[i].version <= Tail_(c)[i + 1].version
    /\ (Tail_(c) # <<>> /\ wire[c].prev # Null) =>
         Val(wire[c].prev) <= Tail_(c)[1].version

\* C5: a subscriber receives its snapshot, stamped v0, as its first message
\* and afterwards only events with a version above v0.
C5_OnlyNewerThanSnapshot ==
  \A c \in ClientIds :
    /\ \A i \in 1..Len(wire[c].batch) :
         wire[c].batch[i].type = "snapshot" =>
           /\ i = 1 /\ Len(wire[c].batch) = 1 /\ wire[c].prev = Null
           /\ wire[c].snapshot = Some(wire[c].batch[i].version)
    /\ Tail_(c) # <<>> =>
         /\ wire[c].snapshot # Null
         /\ \A i \in 1..Len(Tail_(c)) :
              Tail_(c)[i].version > Val(wire[c].snapshot)

\* the pending result exists and the clock is past its expiresAt
PendingHasExpired ==
  /\ Initialised
  /\ Persisted.pendingResultExpiresAt # Null
  /\ Val(Persisted.pendingResultExpiresAt).iso < now

\* C11: once the pending result has expired, discardSpin(s) removes only the
\* history entry with id s: no participant's spinsSinceLastWon changes and
\* neither participant.updated nor spin.result.dismissed is emitted.
C11_DiscardAfterExpiry ==
  [][\A spinId \in SpinIdArgs :
       (PendingHasExpired /\ DiscardSpin(spinId)) =>
          /\ Val(storage').participants = Persisted.participants
          /\ Val(storage').spinHistory =
               SeqFilter(Persisted.spinHistory,
                         {h \in Range(Persisted.spinHistory) : h.id # spinId})
          /\ emitted' = <<>>]_vars

\* C11 witness: the expired pending result of the only spin has just been
\* discarded: its history entry is gone, no event went out, and a participant
\* still carries the counter the resolve gave it.
C11_Witness ==
  /\ response = [op |-> "discardSpin", status |-> 204]
  /\ emitted = <<>>
  /\ ticks = MaxTicks
  /\ nextSpinId = 2
  /\ Persisted.spin.status = "idle"
  /\ Persisted.spinHistory = <<>>
  /\ Persisted.pendingResultSpinId = Null
  /\ \E p \in Range(Roster) : p.spinsSinceLastWon = 1

\* C12: requestSpin answers 202 and the group becomes spinning whenever it
\* is idle with at least 2 active participants; it answers 409 when a spin is
\* in progress or fewer than 2 are active, and then the stored state (spin,
\* roster, version) is as before and no event is emitted.
Spins ==
  /\ response'.op = "requestSpin"
  /\ \E draw \in 0..MaxDraw, d \in DurationChoices, e \in ExtraTurnsChoices :
       RequestSpin(draw, d, e)

C12_RequestSpinOutcome ==
  [][Spins =>
       IF Persisted.spin.status # "spinning" /\ Len(Actives(Roster)) >= 2
       THEN /\ response'.status = 202
            /\ Val(storage').spin.status = "spinning"
       ELSE /\ response'.status = 409
            /\ storage' = storage
            /\ emitted' = <<>>]_vars

\* C12 witness: a spin started on a roster with exactly 2 active
\* participants is in progress and a further requestSpin was just refused.
C12_Witness ==
  /\ response = [op |-> "requestSpin", status |-> 409]
  /\ emitted = <<>>
  /\ Persisted.spin.status = "spinning"
  /\ Len(Roster) = 2
  /\ Len(Actives(Roster)) = 2
  /\ nextParticipantId = 3 /\ ackedRemoves = {} /\ commits = 2

\* the last step emitted spin.resolved for the spin `spinId`
ResolvedEmitted(spinId) ==
  \E i \in 1..Len(emitted) :
    /\ emitted[i].type = "spin.resolved"
    /\ emitted[i].payload.spin.spinId = Some(spinId)

\* C13: every started spin eventually resolves, whatever is interleaved: the
\* group returns to idle with resolvedAt set and spin.resolved is emitted
\* for that spin.
C13_SpinEventuallyResolves ==
  \A spinId \in 1..MaxSpins :
    (Initialised /\ Persisted.spin.status = "spinning"
       /\ Persisted.spin.spinId = Some(spinId))
    ~> (/\ Initialised
        /\ Persisted.spin.status = "idle"
        /\ Persisted.spin.resolvedAt # Null
        /\ ResolvedEmitted(spinId))

\* the entries of one list of a commit body (`body.adds ?? []`)
Entries(j) == IF j.t = "array" THEN j.v ELSE <<>>

\* commits of every shape on rosters built by single adds
NextCommit ==
  \/ \E name \in GroupNameInputs : CreateGroup(name)
  \/ IdsLeft(1) /\ (\E body \in AsyncAddBodies : AddParticipant(body)) /\ InBounds'
  \/ (\E body \in CommitBodies :
        IdsLeft(Len(Entries(body.adds))) /\ CommitParticipants(body))
       /\ InBounds'

SpecCommit == Init /\ [][NextCommit]_vars

\* the commit body a client sends to undo the commit that turned the roster
\* `before` into `after`: remove what was added, add again what was removed
\* and set emailId and manager of the changed participants back
JEmail(emailId) == IF IsNull(emailId) THEN JNull ELSE JStr(Val(emailId))

InverseBody(before, after) ==
  LET gone == SeqFilter(before, {p \in Range(before) : p.id \notin Ids(after)})
      new == SeqFilter(after, {p \in Range(after) : p.id \notin Ids(before)})
      changed == SeqFilter(before,
                   {p \in Range(before) :
                      /\ p.id \in Ids(after)
                      /\ \/ ById(after, p.id).emailId # p.emailId
                         \/ ById(after, p.id).manager # p.manager})
  IN [adds |-> JArr([i \in 1..Len(gone) |->
                      [name |-> JStr(gone[i].name),
                       emailId |-> JEmail(gone[i].emailId),
                       manager |-> JBool(gone[i].manager)]]),
      updates |-> JArr([i \in 1..Len(changed) |->
                         [participantId |-> JId(changed[i].id),
                          emailId |-> JEmail(changed[i].emailId),
                          manager |-> JBool(changed[i].manager)]]),
      removes |-> JArr([i \in 1..Len(new) |-> JId(new[i].id)])]

\* an accepted commit followed by the commit that undoes it, on rosters whose
\* participants may have been deactivated
UndoesCommit ==
  /\ preCommit # Null
  /\ Initialised
  /\ CommitParticipants(InverseBody(Val(preCommit), Persisted.participants))

NextInverse ==
  \/ \E name \in GroupNameInputs : CreateGroup(name)
  \/ IdsLeft(1) /\ (\E body \in AsyncAddBodies : AddParticipant(body)) /\ InBounds'
  \/ (\E id \in ParticipantIdArgs, body \in SpinUpdateBodies :
        UpdateParticipant(id, body)) /\ InBounds'
  \/ (\E body \in CommitBodies :
        IdsLeft(Len(Entries(body.adds))) /\ CommitParticipants(body))
       /\ InBounds'
  \/ InBounds /\ UndoesCommit /\ nextParticipantId' <= MaxParticipantIds + 1

SpecInverse == Init /\ [][NextInverse]_vars

\* ----------------------------------------------------------- the router
MailUpper == <<"A", "@", "b", ".", "c">>
MailOther == <<"c", "@", "b", ".", "c">>

\* what getAuthContext makes of the bearer token: nobody, the owner of the
\* group, a user whose verified email is a participant's, and a user whose
\* verified email is nobody's
Anonymous == [isAuthenticated |-> FALSE, userId |-> Null, verifiedEmails |-> {}]
OwnerCaller ==
  [isAuthenticated |-> TRUE, userId |-> Some(OwnerUserId), verifiedEmails |-> {}]
MemberCaller ==
  [isAuthenticated |-> TRUE, userId |-> Some("U2"),
   verifiedEmails |-> {normalizeEmail(MailUpper)}]
StrangerCaller ==
  [isAuthenticated |-> TRUE, userId |-> Some("U3"),
   verifiedEmails |-> {normalizeEmail(MailOther)}]
Callers == {Anonymous, OwnerCaller, MemberCaller, StrangerCaller}

requireAuth(auth) == auth.isAuthenticated /\ ~IsNull(auth.userId)

\* `Boolean(matchedParticipant?.manager)` read off any matching participant
matchedManagerAny(matched) == \E i \in 1..Len(matched) : matched[i].manager

\* `Boolean(matchedParticipant?.manager)`: find() gave the first match
matchedManager(matched) == matched # <<>> /\ matched[1].manager

getGroupAccessProfile(current, auth) ==
  LET matched ==
        SeqFilter(current.participants,
                  {p \in Range(current.participants) :
                     /\ ~IsNull(p.emailId)
                     /\ normalizeEmail(Val(p.emailId)) \in auth.verifiedEmails})
  IN [participant |-> IF matched = <<>> THEN Null ELSE Some(matched[1]),
      isOwner |-> auth.userId = Some(current.group.ownerUserId),
      isParticipant |-> matched # <<>>,
      isManager |-> matchedManager(matched)]

\* a gate that lets every signed-in user through
hasAccessSignedIn(profile) == TRUE

\* the negation of `!profile.isParticipant && !profile.isOwner`
hasAccess(profile) == profile.isParticipant \/ profile.isOwner

\* requireParticipant: 0 when the request may go on to the group object,
\* else the status of the response the router answers with
requireParticipant(stored, auth) ==
  IF ~requireAuth(auth) THEN 401
  ELSE IF IsNull(stored) THEN 404
  ELSE IF ~hasAccess(getGroupAccessProfile(loadState(Val(stored)), auth)) THEN 403
  ELSE 0

\* the router answers by itself; the group object is not called
Rejected(route, status) ==
  /\ response' = [op |-> route, status |-> status]
  /\ emitted' = <<>>
  /\ preResolve' = Null
  /\ preCommit' = Null
  /\ UNCHANGED <<kv, conn>>
  /\ UNCHANGED <<storage, sockets, failing, wire, timers, now, ticks,
                 nextParticipantId, nextSpinId, nextClientId, inflight,
                 ackedAdds, ackedRemoves, commits, started>>

\* POST /groups/:groupId/spin
RouteSpin(auth, draw, durationMs, extraTurns) ==
  IF requireParticipant(storage, auth) # 0
  THEN Rejected("POST spin", requireParticipant(storage, auth))
  ELSE RequestSpin(draw, durationMs, extraTurns)

\* GET /groups/:groupId/history
RouteHistory(auth) ==
  IF requireParticipant(storage, auth) # 0
  THEN Rejected("GET history", requireParticipant(storage, auth))
  ELSE ListHistory

\* POST /groups/:groupId/history/:spinId/save
RouteSave(auth, spinId) ==
  IF requireParticipant(storage, auth) # 0
  THEN Rejected("POST save", requireParticipant(storage, auth))
  ELSE SaveSpin(spinId)

\* DELETE /groups/:groupId/history/:spinId
RouteDiscard(auth, spinId) ==
  IF requireParticipant(storage, auth) # 0
  THEN Rejected("DELETE history", requireParticipant(storage, auth))
  ELSE DiscardSpin(spinId)

\* GET /groups/:groupId and GET /groups/:groupId/participants: no gate
Served(route, body) ==
  /\ response' = IF Initialised
                 THEN [op |-> route, status |-> 200, body |-> body]
                 ELSE [op |-> route, status |-> 404]
  /\ emitted' = <<>>
  /\ preResolve' = Null
  /\ preCommit' = Null
  /\ UNCHANGED <<kv, conn>>
  /\ UNCHANGED <<storage, sockets, failing, wire, timers, now, ticks,
                 nextParticipantId, nextSpinId, nextClientId, inflight,
                 ackedAdds, ackedRemoves, commits, started>>

\* (a response body is kept as a sequence: the group is a one-element one)
RouteGetGroup ==
  Served("GET group", IF Initialised THEN <<Persisted.group>> ELSE <<>>)

RouteGetParticipants ==
  Served("GET participants", IF Initialised THEN Persisted.participants ELSE <<>>)

\* callers of every kind on a roster in which one participant has an email
AccessCommitBodies ==
  {[adds |-> JArr(<<[name |-> JStr(Ada), emailId |-> JStr(MailUpper),
                     manager |-> Undefined],
                    PlainAdd(Bo)>>),
    updates |-> Undefined, removes |-> Undefined]}

NextAccess ==
  \/ \E name \in GroupNameInputs : CreateGroup(name)
  \/ IdsLeft(2) /\ (\E body \in AccessCommitBodies : CommitParticipants(body))
       /\ InBounds'
  \/ (\E id \in ParticipantIdArgs : RemoveParticipant(id)) /\ InBounds'
  \/ nextSpinId <= MaxSpins
       /\ (\E auth \in Callers, d \in DurationChoices, e \in ExtraTurnsChoices :
             RouteSpin(auth, 0, d, e))
       /\ InBounds'
  \/ TimerFires
  \/ \E auth \in Callers : RouteHistory(auth)
  \/ (\E auth \in Callers, spinId \in SpinIdArgs : RouteSave(auth, spinId))
       /\ InBounds'
  \/ (\E auth \in Callers, spinId \in SpinIdArgs : RouteDiscard(auth, spinId))
       /\ InBounds'
  \/ RouteGetGroup
  \/ RouteGetParticipants

SpecAccess == Init /\ [][NextAccess]_vars

\* a subscriber of a group whose requests run one after the other
NextClient ==
  \/ NextSpin
  \/ nextClientId <= MaxSockets /\ Subscribe

SpecClient == Init /\ [][NextClient]_vars

\* POST /init sent again to the object of a group that exists, with the
\* group it already holds (the same id) under the name `name`
Reinit(name) ==
  /\ Initialised
  /\ \E r \in {init([group |-> [Persisted.group EXCEPT !.name = name]])} :
        /\ storage' = IF r.save THEN Some(r.state) ELSE storage
        /\ response' = [op |-> "init", status |-> r.status]
  /\ emitted' = <<>>
  /\ preResolve' = Null
  /\ preCommit' = Null
  /\ UNCHANGED <<kv, conn>>
  /\ UNCHANGED <<sockets, failing, wire, timers, now, ticks, nextParticipantId,
                 nextSpinId, nextClientId, inflight, ackedAdds, ackedRemoves,
                 commits, started>>

\* the handler runs that reach saveState on the stored state
Attempts ==
  {[op |-> "addParticipant",
    r |-> addParticipant(loadState(Persisted), body, nextParticipantId)] :
     body \in SpinAddBodies}
  \cup {[op |-> "removeParticipant",
         r |-> removeParticipant(loadState(Persisted), id)] : id \in 1..2}
  \cup {[op |-> "requestSpin",
         r |-> requestSpin(loadState(Persisted), 0, nextSpinId, d, e, now)] :
          d \in DurationChoices, e \in ExtraTurnsChoices}
  \cup {[op |-> "discardSpin",
         r |-> discardSpin(loadState(Persisted), spinId, now)] :
          spinId \in SpinIdArgs}

\* storage.put throws inside saveState: the handler never reaches its
\* broadcast, and the catch of fetch answers 400 for an Error, else 500
PutThrows(status) ==
  /\ Initialised
  /\ \E a \in Attempts :
       a.r.save /\ Finish(a.op, Reply(status, loadState(Persisted)))
  /\ preCommit' = Null
  /\ UNCHANGED <<kv, conn>>
  /\ UNCHANGED <<failing, now, ticks, nextParticipantId, nextSpinId,
                 nextClientId, inflight>>

\* storage.put throws inside the timer's resolveSpin: the callback is gone
\* and nothing was stored or sent
ResolvePutThrows(timer) ==
  /\ timer \in timers
  /\ Initialised
  /\ resolveSpin(loadState(Persisted), timer.spinId, Max(now, timer.due)).save
  /\ timers' = timers \ {timer}
  /\ now' = Max(now, timer.due)
  /\ response' = [op |-> "resolveSpin", status |-> 0]
  /\ emitted' = <<>>
  /\ preResolve' = Null
  /\ preCommit' = Null
  /\ UNCHANGED <<kv, conn>>
  /\ UNCHANGED <<storage, sockets, failing, wire, ticks, nextParticipantId,
                 nextSpinId, nextClientId, inflight, ackedAdds, ackedRemoves,
                 commits, started>>

\* a subscribed group whose storage may refuse any write
NextPersist ==
  \/ \E name \in GroupNameInputs : CreateGroup(name)
  \/ nextClientId <= MaxSockets /\ Subscribe
  \/ IdsLeft(2) /\ (\E body \in SpinCommitBodies : CommitParticipants(body))
       /\ InBounds'
  \/ IdsLeft(1) /\ (\E body \in SpinAddBodies : AddParticipant(body)) /\ InBounds'
  \/ (\E id \in 1..2 : RemoveParticipant(id)) /\ InBounds'
  \/ nextSpinId <= MaxSpins
       /\ (\E d \in DurationChoices, e \in ExtraTurnsChoices : RequestSpin(0, d, e))
       /\ InBounds'
  \/ TimerFires
  \/ (\E spinId \in SpinIdArgs : DiscardSpin(spinId)) /\ InBounds'
  \/ \E status \in {400, 500} : PutThrows(status)
  \/ \E timer \in timers : ResolvePutThrows(timer)

SpecPersist == Init /\ [][NextPersist]_vars

\* subscribers whose peers may go away, so that a send to them throws
DropSockets == MaxSockets + 1

NextDrop ==
  \/ \E name \in GroupNameInputs : CreateGroup(name)
  \/ nextClientId <= DropSockets /\ Subscribe
  \/ \E c \in ClientIds : BreakSocket(c)
  \/ IdsLeft(2) /\ (\E body \in SpinCommitBodies : CommitParticipants(body))
       /\ InBounds'
  \/ RemoveParticipant(1) /\ InBounds'
  \/ nextSpinId <= MaxSpins
       /\ (\E d \in DurationChoices, e \in ExtraTurnsChoices : RequestSpin(0, d, e))
       /\ InBounds'
  \/ TimerFires

SpecDrop == Init /\ [][NextDrop]_vars

\* additions and removals only
\* a spin whose stored state is overwritten by a suspended update before
\* its timer fires, and the spin started after that; one update is
\* suspended at a time
NextSupersede ==
  \/ \E name \in GroupNameInputs : CreateGroup(name)
  \/ IdsLeft(2) /\ (\E body \in SpinCommitBodies : CommitParticipants(body))
       /\ InBounds'
  \/ inflight = {} /\ \E id \in AsyncUpdateIds, body \in SpinUpdateBodies :
       BeginUpdate(id, body)
  \/ CompletesUpdate
  \/ nextSpinId <= MaxSpins
       /\ (\E d \in DurationChoices, e \in ExtraTurnsChoices : RequestSpin(0, d, e))
       /\ InBounds'
  \/ TimerFires
  \/ nextClientId <= MaxSockets /\ Subscribe

SpecSupersede == Init /\ [][NextSupersede]_vars

\* updates that deactivate a participant and, in the same body, ask for
\* something the handler refuses after `active` has been assigned
RejectBodies ==
  {[active |-> JBool(FALSE), emailId |-> Undefined, manager |-> JBool(TRUE)],
   [active |-> JBool(FALSE), emailId |-> JStr(MailBad), manager |-> Undefined],
   [active |-> JBool(FALSE), emailId |-> JStr(MailA), manager |-> JNum(1)],
   [active |-> JBool(FALSE), emailId |-> Undefined, manager |-> Undefined],
   [active |-> JBool(TRUE), emailId |-> JStr(MailA), manager |-> JBool(TRUE)]}
RejectIds == 1..2

NextReject ==
  \/ \E name \in GroupNameInputs : CreateGroup(name)
  \/ Initialised /\ Persisted.participants = <<>> /\ IdsLeft(2)
       /\ (\E body \in SpinCommitBodies : CommitParticipants(body))
  \/ IdsLeft(1) /\ (\E body \in SpinAddBodies : AddParticipant(body)) /\ InBounds'
  \/ (\E id \in RejectIds, body \in RejectBodies : UpdateParticipant(id, body))
       /\ InBounds'
  \/ nextClientId <= MaxSockets /\ Subscribe

SpecReject == Init /\ [][NextReject]_vars

\* ----------------------------------- the page's realtime connection
\* the browser runs one callback at a time; the server and the network
\* decide which socket opens, fails or closes
MaxAttempt == 5
MaxWebSockets == 4

Callback(op, c) ==
  /\ conn' = c
  /\ response' = [op |-> op, status |-> 0]
  /\ UNCHANGED <<storage, sockets, failing, wire, timers, now, ticks,
                 nextParticipantId, nextSpinId, nextClientId, emitted,
                 inflight, ackedAdds, ackedRemoves, commits, preResolve,
                 started, preCommit, kv>>

\* the open event of a socket that is still connecting
SocketOpens(s) ==
  /\ s \in conn.sockets /\ s.readyState = "connecting"
  /\ Callback("ws.open",
              onopen([conn EXCEPT !.sockets =
                        (@ \ {s}) \cup {[s EXCEPT !.readyState = "open"]}]))

\* the error event: the connection has failed, the close event follows
SocketErrors(s) ==
  /\ s \in conn.sockets /\ ~s.errored
  /\ Callback("ws.error",
              onerror([conn EXCEPT !.sockets =
                         (@ \ {s}) \cup {[s EXCEPT !.readyState = "closing",
                                                   !.errored = TRUE]}]))

\* the close event, the last event of a socket
SocketCloses(s) ==
  /\ s \in conn.sockets
  /\ Callback("ws.close", onclose([conn EXCEPT !.sockets = @ \ {s}]))

\* the timeout set by scheduleReconnect runs connect
ReconnectTimerFires ==
  /\ conn.armed # Null
  /\ Callback("ws.timer", connect([conn EXCEPT !.armed = Null]))

\* the page calls close() on the connection
CloseConnection ==
  /\ ~conn.isClosed
  /\ Callback("ws.dispose", close(conn))

NextRealtime ==
  \/ \E s \in conn.sockets : SocketOpens(s)
  \/ \E s \in conn.sockets : SocketErrors(s)
  \/ (\E s \in conn.sockets : SocketCloses(s))
       /\ conn'.reconnectAttempt <= MaxAttempt
  \/ conn.created < MaxWebSockets + MaxAttempt /\ ReconnectTimerFires
  \/ CloseConnection

SpecRealtime == Init /\ [][NextRealtime]_vars

NextAdd ==
  \/ \E name \in GroupNameInputs : CreateGroup(name)
  \/ IdsLeft(1) /\ (\E body \in AddBodies : AddParticipant(body)) /\ InBounds'
  \/ (\E id \in ParticipantIdArgs : RemoveParticipant(id)) /\ InBounds'

SpecAdd == Init /\ [][NextAdd]_vars

\* a group that may be initialised again at any time
NextReinit ==
  \/ NextAdd
  \/ \E name \in GroupNameInputs : Reinit(name)

SpecReinit == Init /\ [][NextReinit]_vars

\* the weighted draw on rosters of every shape: a group some way into its
\* life, with two or more participants, active or not, whose counters have
\* grown by up to MaxCounter spins
MaxCounter == 2

DrawRosters ==
  UNION {[1..n -> [active : BOOLEAN, spinsSinceLastWon : 0..MaxCounter]] :
           n \in 2..MaxParticipantIds}

DrawState(f) ==
  [init([group |-> [id |-> GroupId, name |-> <<"G">>,
                    createdAt |-> toISOString(0),
                    ownerUserId |-> OwnerUserId, ownerEmail |-> OwnerEmail,
                    ownerParticipantId |-> OwnerParticipantId]]).state
     EXCEPT !.participants =
              [i \in 1..Len(f) |->
                 [id |-> i, name |-> [j \in 1..i |-> "x"], active |-> f[i].active,
                  emailId |-> Null, manager |-> FALSE,
                  spinsSinceLastWon |-> f[i].spinsSinceLastWon]]]

InitDraw ==
  /\ \E f \in DrawRosters :
       /\ storage = Some(DrawState(f))
       /\ nextParticipantId = Len(f) + 1
  /\ sockets = <<>>
  /\ failing = {}
  /\ wire = [c \in ClientIds |-> NoWire]
  /\ timers = {}
  /\ now = 1
  /\ ticks = 0
  /\ nextSpinId = 1
  /\ nextClientId = 1
  /\ response = [op |-> "none", status |-> 0]
  /\ emitted = <<>>
  /\ inflight = {}
  /\ ackedAdds = {}
  /\ ackedRemoves = {}
  /\ commits = 0
  /\ preResolve = Null
  /\ started = {}
  /\ preCommit = Null
  /\ kv = [keys |-> {}, index |-> Null]
  /\ conn = connectGroupRealtime

DrawMax == MaxParticipantIds * (MaxCounter + MaxSpins + 1)

NextDraw ==
  \/ nextSpinId <= MaxSpins
       /\ (\E draw \in 0..DrawMax, d \in DurationChoices, e \in ExtraTurnsChoices :
             RequestSpin(draw, d, e))
       /\ InBounds'
  \/ TimerFires

SpecDraw == InitDraw /\ [][NextDraw]_vars

\* ------------------------------------------------- the manager routes
\* requireManager: 0 when the request may go on to the group object
requireManager(stored, auth) ==
  IF requireParticipant(stored, auth) # 0 THEN requireParticipant(stored, auth)
  ELSE IF ~getGroupAccessProfile(loadState(Val(stored)), auth).isManager THEN 403
  ELSE 0

\* a manager route once requireManager let the caller through: the object
\* runs `r`; after an ok response the router syncs the index, and a throw in
\* the sync is answered 500 by the framework (`by` records the caller)
Forward(route, auth, r, failAt) ==
  \E s \in {syncParticipantGroupIndex(kv, r.state.participants, failAt)} :
     /\ Deliver(r)
     /\ kv' = IF r.status \in 200..299 THEN s.kv ELSE kv
     /\ UNCHANGED conn
     /\ response' =
          [op |-> route,
           status |-> IF r.status \in 200..299 /\ s.threw THEN 500 ELSE r.status,
           by |-> auth]
     /\ preCommit' = Null
     /\ nextParticipantId' = nextParticipantId + Cardinality(r.created)
     /\ UNCHANGED <<failing, now, ticks, nextSpinId, nextClientId, inflight>>

\* the router answers a manager route by itself
Refused(route, auth, status) ==
  /\ response' = [op |-> route, status |-> status, by |-> auth]
  /\ emitted' = <<>>
  /\ preResolve' = Null
  /\ preCommit' = Null
  /\ UNCHANGED <<kv, conn>>
  /\ UNCHANGED <<storage, sockets, failing, wire, timers, now, ticks,
                 nextParticipantId, nextSpinId, nextClientId, inflight,
                 ackedAdds, ackedRemoves, commits, started>>

\* PATCH /groups/:groupId: the object has no handler for PATCH /group and
\* answers 404, so the index record is never rewritten
RouteRename(auth, name) ==
  IF requireManager(storage, auth) # 0
  THEN Refused("PATCH group", auth, requireManager(storage, auth))
  ELSE Forward("PATCH group", auth, Reply(404, loadState(Persisted)), "none")

\* POST /groups/:groupId/participants
RouteAdd(auth, body, failAt) ==
  IF requireManager(storage, auth) # 0
  THEN Refused("POST participants", auth, requireManager(storage, auth))
  ELSE Forward("POST participants", auth,
               addParticipant(loadState(Persisted), body, nextParticipantId),
               failAt)

\* PATCH /groups/:groupId/participants/:participantId
RouteUpdate(auth, participantId, body, failAt) ==
  IF requireManager(storage, auth) # 0
  THEN Refused("PATCH participant", auth, requireManager(storage, auth))
  ELSE Forward("PATCH participant", auth,
               updateParticipant(loadState(Persisted), participantId, body),
               failAt)

\* POST /groups/:groupId/participants/commit
RouteCommit(auth, body, failAt) ==
  IF requireManager(storage, auth) # 0
  THEN Refused("POST commit", auth, requireManager(storage, auth))
  ELSE Forward("POST commit", auth,
               commitParticipants(loadState(Persisted), body, nextParticipantId),
               failAt)

\* DELETE /groups/:groupId/participants/:participantId
RouteRemove(auth, participantId, failAt) ==
  IF requireManager(storage, auth) # 0
  THEN Refused("DELETE participant", auth, requireManager(storage, auth))
  ELSE Forward("DELETE participant", auth,
               removeParticipant(loadState(Persisted), participantId), failAt)

ManagerRoutes ==
  {"PATCH group", "POST participants", "PATCH participant", "POST commit",
   "DELETE participant"}

\* rosters in which one email is held by a manager only, by a participant
\* who is no manager before a manager, and by a manager before one who is not
MailAda(manager) ==
  [name |-> JStr(Ada), emailId |-> JStr(MailUpper), manager |-> manager]
MailBo(manager) ==
  [name |-> JStr(Bo), emailId |-> JStr(MailA), manager |-> manager]
ManageSeedBodies ==
  {[adds |-> JArr(a), updates |-> Undefined, removes |-> Undefined] :
     a \in {<<MailAda(JBool(TRUE)), PlainAdd(Bo)>>,
            <<MailAda(Undefined), MailBo(JBool(TRUE))>>,
            <<MailBo(JBool(TRUE)), MailAda(Undefined)>>}}

ManageAddBodies ==
  {PlainAdd(Cy), PlainAdd(Ada),
   [name |-> JStr(Cy), emailId |-> JStr(MailOther), manager |-> JBool(TRUE)]}
ManageUpdateBodies ==
  {[active |-> a, emailId |-> e, manager |-> m] :
     a \in {Undefined}, e \in {Undefined, JNull}, m \in {Undefined, JBool(FALSE)}}
  \ {[active |-> Undefined, emailId |-> Undefined, manager |-> Undefined]}
ManageCommitBodies ==
  {[adds |-> JArr(<<>>), updates |-> JArr(<<>>), removes |-> JArr(r)] :
     r \in {<<>>, <<JId(1)>>}}

\* the manager routes while the index store works, for callers of every
\* kind (a signed-in stranger is refused like the owner)
ManageCallers == {Anonymous, OwnerCaller, MemberCaller}
ManageIds == 1..2

NextManage ==
  \/ \E name \in GroupNameInputs : CreateGroup(name)
  \/ Initialised /\ Persisted.participants = <<>> /\ IdsLeft(2)
       /\ (\E body \in ManageSeedBodies : CommitParticipants(body))
  \/ \E auth \in ManageCallers, name \in GroupNameInputs : RouteRename(auth, name)
  \/ IdsLeft(1)
       /\ (\E auth \in ManageCallers, body \in ManageAddBodies :
             RouteAdd(auth, body, "none"))
       /\ InBounds'
  \/ (\E auth \in ManageCallers, id \in ManageIds, body \in ManageUpdateBodies :
        RouteUpdate(auth, id, body, "none"))
       /\ InBounds'
  \/ (\E auth \in ManageCallers, body \in ManageCommitBodies :
        RouteCommit(auth, body, "none"))
       /\ InBounds'
  \/ (\E auth \in ManageCallers, id \in ManageIds : RouteRemove(auth, id, "none"))
       /\ InBounds'

SpecManage == Init /\ [][NextManage]_vars

\* a manager's requests while the index store may throw at any point of the
\* sync that follows an accepted change
IndexSeedBodies ==
  {[adds |-> JArr(<<MailAda(JBool(TRUE)), PlainAdd(Bo)>>),
    updates |-> Undefined, removes |-> Undefined]}
IndexAddBodies ==
  {PlainAdd(Cy),
   [name |-> JStr(Cy), emailId |-> JStr(MailOther), manager |-> Undefined]}
IndexUpdateBodies ==
  {[active |-> Undefined, emailId |-> JStr(MailOther), manager |-> Undefined],
   [active |-> Undefined, emailId |-> JNull, manager |-> JBool(FALSE)],
   [active |-> JBool(FALSE), emailId |-> Undefined, manager |-> Undefined]}

NextIndex ==
  \/ \E name \in GroupNameInputs : CreateGroup(name)
  \/ Initialised /\ Persisted.participants = <<>> /\ IdsLeft(2)
       /\ (\E body \in IndexSeedBodies : CommitParticipants(body))
  \/ IdsLeft(1)
       /\ (\E body \in IndexAddBodies, f \in KvFailures :
             RouteAdd(MemberCaller, body, f))
       /\ InBounds'
  \/ (\E id \in ManageIds, body \in IndexUpdateBodies, f \in KvFailures :
        RouteUpdate(MemberCaller, id, body, f))
       /\ InBounds'
  \/ (\E body \in ManageCommitBodies, f \in KvFailures :
        RouteCommit(MemberCaller, body, f))
       /\ InBounds'
  \/ (\E id \in ManageIds, f \in KvFailures : RouteRemove(MemberCaller, id, f))
       /\ InBounds'

SpecIndex == Init /\ [][NextIndex]_vars

\* ------------------------------- manager routes, one await at a time
\* a manager route is a chain of awaits: requireManager reads the roster,
\* the object applies the change, getParticipants reads the roster again and
\* syncParticipantGroupIndex writes the index; requests of other callers run
\* between any two of them. `inflight` holds the requests between awaits.
RouteRequest(route, auth, participantId, body) ==
  [op |-> route, stage |-> "admitted", by |-> auth,
   participantId |-> participantId, body |-> body,
   status |-> 0, participants |-> <<>>]

\* requireManager at the head of a manager route
RouteAdmit(route, auth, participantId, body) ==
  IF requireManager(storage, auth) # 0
  THEN Refused(route, auth, requireManager(storage, auth))
  ELSE /\ inflight' = inflight \cup {RouteRequest(route, auth, participantId, body)}
       /\ inflight' # inflight
       /\ response' = [op |-> "admit", status |-> 0, by |-> auth]
       /\ emitted' = <<>>
       /\ preResolve' = Null
       /\ preCommit' = Null
       /\ UNCHANGED <<kv, conn>>
       /\ UNCHANGED <<storage, sockets, failing, wire, timers, now, ticks,
                      nextParticipantId, nextSpinId, nextClientId,
                      ackedAdds, ackedRemoves, commits, started>>

\* the object's handler for the call a manager route forwards
RouteRun(req, current, newId) ==
  IF req.op = "POST participants" THEN addParticipant(current, req.body, newId)
  ELSE IF req.op = "PATCH participant"
  THEN updateParticipant(current, req.participantId, req.body)
  ELSE removeParticipant(current, req.participantId)

\* callDurableObject: the object runs the forwarded call on the state it
\* holds now; a response that is not ok ends the request
RouteApply(req) ==
  /\ req \in inflight /\ req.stage = "admitted"
  /\ \E r \in {RouteRun(req, loadState(Persisted), nextParticipantId)} :
       /\ Deliver(r)
       /\ inflight' =
            IF r.status \in 200..299
            THEN (inflight \ {req})
                   \cup {[req EXCEPT !.stage = "applied", !.status = r.status]}
            ELSE inflight \ {req}
       /\ response' = [op |-> req.op, status |-> r.status, by |-> req.by,
                       stage |-> "applied", saved |-> r.save]
       /\ nextParticipantId' = nextParticipantId + Cardinality(r.created)
  /\ preCommit' = Null
  /\ UNCHANGED <<kv, conn>>
  /\ UNCHANGED <<failing, now, ticks, nextSpinId, nextClientId>>

\* getParticipants after the change was applied
RouteReadBack(req) ==
  /\ req \in inflight /\ req.stage = "applied"
  /\ inflight' = (inflight \ {req})
       \cup {[req EXCEPT !.stage = "read",
                         !.participants = loadState(Persisted).participants]}
  /\ response' = [op |-> "getParticipants", status |-> 200, by |-> req.by]
  /\ emitted' = <<>>
  /\ preResolve' = Null
  /\ preCommit' = Null
  /\ UNCHANGED <<kv, conn>>
  /\ UNCHANGED <<storage, sockets, failing, wire, timers, now, ticks,
                 nextParticipantId, nextSpinId, nextClientId,
                 ackedAdds, ackedRemoves, commits, started>>

\* syncParticipantGroupIndex with the roster read back, then the response
RouteSync(req) ==
  /\ req \in inflight /\ req.stage = "read"
  /\ inflight' = inflight \ {req}
  /\ kv' = syncParticipantGroupIndex(kv, req.participants, "none").kv
  /\ UNCHANGED conn
  /\ response' = [op |-> req.op, status |-> req.status, by |-> req.by,
                  stage |-> "synced"]
  /\ emitted' = <<>>
  /\ preResolve' = Null
  /\ preCommit' = Null
  /\ UNCHANGED <<storage, sockets, failing, wire, timers, now, ticks,
                 nextParticipantId, nextSpinId, nextClientId,
                 ackedAdds, ackedRemoves, commits, started>>

\* two managers, Ada (of MemberCaller) and Bo; requests add a participant
\* with an email, remove one, or take the manager flag from one
OverlapSeedBodies ==
  {[adds |-> JArr(<<MailAda(JBool(TRUE)), PlainAdd(Bo)>>),
    updates |-> Undefined, removes |-> Undefined]}
OverlapAddBodies ==
  {[name |-> JStr(Cy), emailId |-> JStr(MailOther), manager |-> Undefined]}
OverlapUpdateBodies ==
  {[active |-> Undefined, emailId |-> Undefined, manager |-> JBool(FALSE)]}
OverlapIds == {1, 3}

NextOverlap ==
  \/ \E name \in GroupNameInputs : CreateGroup(name)
  \/ Initialised /\ Persisted.participants = <<>> /\ IdsLeft(2)
       /\ (\E body \in OverlapSeedBodies : CommitParticipants(body))
  \/ CanBegin /\ \E body \in OverlapAddBodies :
       RouteAdmit("POST participants", MemberCaller, 0, body)
  \/ CanBegin /\ \E id \in OverlapIds, body \in OverlapUpdateBodies :
       RouteAdmit("PATCH participant", MemberCaller, id, body)
  \/ CanBegin /\ \E id \in OverlapIds :
       RouteAdmit("DELETE participant", MemberCaller, id, Undefined)
  \/ (\E req \in inflight : RouteApply(req)) /\ InBounds'
       /\ nextParticipantId' <= MaxParticipantIds + 1
  \/ \E req \in inflight : RouteReadBack(req)
  \/ \E req \in inflight : RouteSync(req)

SpecOverlap == Init /\ [][NextOverlap]_vars

\* a spin whose winner is deactivated or removed, by whole or by overlapping
\* requests, before its timer fires
NextWinner ==
  \/ \E name \in GroupNameInputs : CreateGroup(name)
  \/ IdsLeft(2) /\ (\E body \in SpinCommitBodies : CommitParticipants(body))
       /\ InBounds'
  \/ CanBegin /\ \E id \in AsyncUpdateIds, body \in AsyncUpdateBodies :
       BeginUpdate(id, body)
  \/ CompletesUpdate
  \/ (\E id \in ParticipantIdArgs, body \in SpinUpdateBodies :
        UpdateParticipant(id, body)) /\ InBounds'
  \/ (\E id \in ParticipantIdArgs : RemoveParticipant(id)) /\ InBounds'
  \/ nextSpinId <= MaxSpins
       /\ (\E draw \in 0..MaxDraw, d \in DurationChoices, e \in ExtraTurnsChoices :
             RequestSpin(draw, d, e))
       /\ InBounds'
  \/ TimerFires

SpecWinner == Init /\ [][NextWinner]_vars

\* the subscriber's last delivery is its snapshot, taken while spin `spinId`
\* was in progress
ConnectedMidSpin(c, spinId) ==
  /\ c \in Range(sockets)
  /\ Len(wire[c].batch) = 1
  /\ wire[c].batch[1].type = "snapshot"
  /\ wire[c].batch[1].payload.spin.status = "spinning"
  /\ wire[c].batch[1].payload.spin.spinId = Some(spinId)

ResolvedReceived(c, spinId) ==
  Cardinality({i \in 1..Len(wire[c].resolved) : wire[c].resolved[i] = spinId})

\* C14: a subscriber that connects while a spin is in progress receives a
\* snapshot whose spin is spinning and, if it stays connected, afterwards
\* receives exactly one spin.resolved carrying that spin id.
C14_MidSpinSubscriberSeesResolve ==
  /\ [](\A c \in ClientIds :
          /\ \A spinId \in 1..MaxSpins : ResolvedReceived(c, spinId) <= 1
          /\ \A i \in 1..Len(wire[c].batch) :
               wire[c].batch[i].type = "snapshot" =>
                 wire[c].batch[i].payload.spin = Persisted.spin)
  /\ \A c \in ClientIds, spinId \in 1..MaxSpins :
       ConnectedMidSpin(c, spinId)
         ~> (c \notin Range(sockets) \/ ResolvedReceived(c, spinId) = 1)

\* the timer of the spin that storage holds as spinning fires
ResolvesStoredSpin(timer) ==
  /\ Initialised
  /\ Persisted.spin.status = "spinning"
  /\ Persisted.spin.spinId = Some(timer.spinId)
  /\ ResolveSpin(timer)

StartedWinner(all, spinId) ==
  {s.winnerParticipantId : s \in {t \in all : t.spinId = spinId}}

\* C15: the winner chosen when the spin is requested is authoritative. Every
\* spin.resolved event and every history item carries the winner that the
\* spin.started event of that spin carried, under every interleaving; when the
\* timer of the stored spin fires, the resolve is saved and emitted with that
\* winner even if the participant has been deactivated or removed meanwhile,
\* and then no counter of that participant changes.
C15_WinnerAuthoritative ==
  [][/\ \A i \in 1..Len(emitted') :
          emitted'[i].type = "spin.resolved" =>
            StartedWinner(started', Val(emitted'[i].payload.spin.spinId)) =
              {Val(emitted'[i].payload.spin.winnerParticipantId)}
     /\ storage' # Null =>
          \A i \in 1..Len(Val(storage').spinHistory) :
            StartedWinner(started', Val(storage').spinHistory[i].id) =
              {Val(storage').spinHistory[i].winnerParticipantId}
     /\ \A timer \in timers :
          ResolvesStoredSpin(timer) =>
            LET winner == StartedWinner(started, timer.spinId)
                after == Val(storage')
                last == after.spinHistory[Len(after.spinHistory)]
            IN /\ Cardinality(winner) = 1
               /\ emitted' # <<>>
               /\ emitted'[1].type = "spin.resolved"
               /\ emitted'[1].payload.spin.spinId = Some(timer.spinId)
               /\ emitted'[1].payload.spin.status = "idle"
               /\ last.id = timer.spinId
               /\ {last.winnerParticipantId} = winner
               /\ \A p \in Range(Roster) :
                    (p.id \in winner /\ ~p.active) =>
                      p \in Range(after.participants)
               /\ (winner \cap Ids(Roster) = {}) =>
                    /\ winner \cap Ids(after.participants) = {}
                    /\ \A i \in 1..Len(emitted') :
                         emitted'[i].type = "participant.updated" =>
                           emitted'[i].payload.participant.id \notin winner]_vars

\* C15 witness: a spin has just resolved in favour of the participant that
\* was drawn at its start and has been deactivated since; its counter is the
\* one it had before the resolve.
C15_Witness ==
  /\ response.op = "resolveSpin"
  /\ preResolve # Null
  /\ emitted # <<>>
  /\ emitted[1].type = "spin.resolved"
  /\ \E p \in Range(Val(preResolve).participants) :
       /\ ~p.active
       /\ Some(p.id) = emitted[1].payload.spin.winnerParticipantId
       /\ p \in Range(Roster)
       /\ [spinId |-> Val(emitted[1].payload.spin.spinId),
           winnerParticipantId |-> p.id] \in started

\* a spin has just resolved in favour of a participant that had been removed
C15_WitnessRemoved ==
  /\ response.op = "resolveSpin"
  /\ preResolve # Null
  /\ emitted # <<>>
  /\ emitted[1].type = "spin.resolved"
  /\ Val(emitted[1].payload.spin.winnerParticipantId)
       \notin Ids(Val(preResolve).participants)

CommitRejected ==
  /\ response'.op = "commitParticipants"
  /\ response'.status # 200

\* C16: commitParticipants is all-or-nothing. Whenever it answers with an
\* error (400, 404 or 409) because of any entry of adds, updates or removes,
\* no entry is applied: the stored state, and with it roster and version, is
\* unchanged, no participant id is consumed and no event is emitted.
C16_CommitAllOrNothing ==
  [][CommitRejected =>
       /\ response'.status \in {400, 404, 409}
       /\ storage' = storage
       /\ emitted' = <<>>
       /\ wire' = wire
       /\ ackedAdds' = ackedAdds /\ ackedRemoves' = ackedRemoves]_vars

\* C16 witness: a commit has just been rejected with 409 although no stored
\* name collides with its adds: an earlier entry of the same commit was valid,
\* and the roster still is what it was.
C16_Witness ==
  /\ response = [op |-> "commitParticipants", status |-> 409]
  /\ emitted = <<>>
  /\ Roster # <<>>
  /\ \A p \in Range(Roster) :
       ToLowerCase(p.name) \notin {ToLowerCase(Ada), ToLowerCase(Bo)}

C16_Witness400 == response = [op |-> "commitParticipants", status |-> 400]
C16_Witness404 == response = [op |-> "commitParticipants", status |-> 404]

\* C17: a successful commitParticipants applies removes, then updates, then
\* adds: the roster afterwards is the survivors of the removes in their old
\* order followed by the added participants, and the events emitted are one
\* participant.removed per removed id, then one participant.updated per
\* updated id, then one participant.added per added participant, in the order
\* of the request and all with the one version the commit saved. Added names
\* are checked against the names that survive the removes: a commit answers
\* 409 only if an added name equals a surviving name or an earlier added name.
C17_CommitOrder ==
  [][(response'.op = "commitParticipants" /\ response'.status \in {200, 409}) =>
       \A body \in CommitBodies :
         CommitParticipants(body) =>
           LET rem == Entries(body.removes)
               upd == Entries(body.updates)
               add == Entries(body.adds)
               before == Roster
               survivors == Without(before, {rem[i].v : i \in 1..Len(rem)})
               addName(i) == ToLowerCase(Val(validateName(add[i].name.v)))
           IN IF response'.status = 409
              THEN /\ storage' = storage
                   /\ \E i \in 1..Len(add) :
                        \/ \E p \in Range(survivors) : ToLowerCase(p.name) = addName(i)
                        \/ \E j \in 1..(i - 1) : addName(j) = addName(i)
              ELSE
                LET after == Val(storage').participants
                    version == Val(storage').version
                    ev == emitted'
                IN /\ version = Persisted.version + 1
                   /\ Len(after) = Len(survivors) + Len(add)
                   /\ \A i \in 1..Len(survivors) :
                        /\ after[i].id = survivors[i].id
                        /\ after[i].name = survivors[i].name
                   /\ Len(ev) = Len(rem) + Len(upd) + Len(add)
                   /\ \A i \in 1..Len(ev) : ev[i].version = version
                   /\ \A i \in 1..Len(rem) :
                        /\ ev[i].type = "participant.removed"
                        /\ ev[i].payload.participantId = rem[i].v
                        /\ rem[i].v \notin Ids(after)
                   /\ \A i \in 1..Len(upd) :
                        LET e == ev[Len(rem) + i]
                        IN /\ e.type = "participant.updated"
                           /\ e.payload.participant.id = upd[i].participantId.v
                           /\ e.payload.participant \in Range(after)
                   /\ \A i \in 1..Len(add) :
                        LET e == ev[Len(rem) + Len(upd) + i]
                        IN /\ e.type = "participant.added"
                           /\ e.payload.participant = after[Len(survivors) + i]
                           /\ e.payload.participant.id \notin Ids(before)
                           /\ ToLowerCase(e.payload.participant.name) = addName(i)]_vars

\* C17 witness: one commit has removed participant 1, made participant 2 a
\* manager and added a participant named Ada; the three events came in that
\* order with the version the commit saved, and the roster is the survivor
\* followed by the newcomer.
C17_Witness ==
  /\ response = [op |-> "commitParticipants", status |-> 200]
  /\ Len(emitted) = 3
  /\ emitted[1].type = "participant.removed"
  /\ emitted[1].payload.participantId = 1
  /\ emitted[2].type = "participant.updated"
  /\ emitted[2].payload.participant.id = 2
  /\ emitted[2].payload.participant.manager
  /\ emitted[3].type = "participant.added"
  /\ emitted[3].payload.participant.name = Ada
  /\ \A i \in 1..3 : emitted[i].version = Persisted.version
  /\ Roster = <<emitted[2].payload.participant, emitted[3].payload.participant>>


\* the participants that are in `ps` but, by id, not in `others`, without ids
Strangers(ps, others) ==
  {[name |-> p.name, active |-> p.active, emailId |-> p.emailId,
    manager |-> p.manager, spinsSinceLastWon |-> p.spinsSinceLastWon] :
     p \in {q \in Range(ps) : q.id \notin Ids(others)}}

\* the same participants, except that those present in only one of the two
\* rosters are compared without their ids
SameUpToNewIds(ps, qs) ==
  /\ Len(ps) = Len(qs)
  /\ \A p \in Range(ps) : p.id \in Ids(qs) => p \in Range(qs)
  /\ Strangers(ps, qs) = Strangers(qs, ps)

\* C18: for every roster and every accepted commitParticipants, the inverse
\* commit applied right after it (remove what was added, add again what was
\* removed, restore the updated emailId and manager values) is accepted and
\* leaves a participant set equal to the one before the commit, up to the ids
\* of the participants that were added again.
C18_InverseCommitRestores ==
  [][UndoesCommit =>
       /\ response'.status = 200
       /\ SameUpToNewIds(Val(storage').participants, Val(preCommit))]_vars

\* C18 holds for the commits that removed no participant that was inactive
\* or had a non-zero counter
C18_InverseCommitRestoresFresh ==
  [][UndoesCommit =>
       /\ response'.status = 200
       /\ (\A p \in Range(Val(preCommit)) :
             p.id \in Ids(Roster) \/ (p.active /\ p.spinsSinceLastWon = 0))
            => SameUpToNewIds(Val(storage').participants, Val(preCommit))]_vars


History == Persisted.spinHistory

\* C19: in every reachable state the spin history holds at most 20 items in
\* the order of their resolution times; a resolve that finds 20 items drops
\* the oldest one and appends its own; and listHistory answers with exactly
\* the stored items, newest first.
C19_HistoryBounded ==
  [][/\ storage' # Null =>
          LET history == Val(storage').spinHistory
          IN /\ Len(history) <= 20
             /\ \A i, j \in 1..Len(history) :
                  i < j => DateParse(history[i].createdAt)
                             < DateParse(history[j].createdAt)
             /\ (response'.op = "listHistory" /\ response'.status = 200) =>
                  /\ Len(response'.body) = Len(history)
                  /\ \A i \in 1..Len(history) :
                       response'.body[i] = history[Len(history) + 1 - i]
     /\ (Resolves /\ Len(History) = 20) =>
          /\ Len(Val(storage').spinHistory) = 20
          /\ \A i \in 1..19 : Val(storage').spinHistory[i] = History[i + 1]
          /\ Val(storage').spinHistory[20].id = Val(Persisted.spin.spinId)]_vars

\* C19 witness: after the 21st resolve the history holds 20 items, the first
\* spin is no longer among them, and listHistory has answered with the 21st
\* spin first and the 2nd last.
C19_Witness ==
  /\ Initialised
  /\ Len(History) = 20
  /\ nextSpinId = 22
  /\ History[1].id = 2
  /\ response.op = "listHistory" /\ response.status = 200
  /\ response.body[1].id = 21
  /\ response.body[20].id = 2


\* the caller is the group's owner or one of its verified emails is, up to
\* case and surrounding blanks, the emailId of a participant
MayAccess(auth) ==
  /\ Initialised
  /\ \/ auth.userId = Some(Persisted.group.ownerUserId)
     \/ \E p \in Range(Roster) :
          /\ p.emailId # Null
          /\ ToLowerCase(Trim(Val(p.emailId))) \in auth.verifiedEmails

Routed(auth) ==
  \/ \E d \in DurationChoices, e \in ExtraTurnsChoices : RouteSpin(auth, 0, d, e)
  \/ RouteHistory(auth)
  \/ \E spinId \in SpinIdArgs : RouteSave(auth, spinId)
  \/ \E spinId \in SpinIdArgs : RouteDiscard(auth, spinId)

ActorUntouched ==
  /\ storage' = storage
  /\ emitted' = <<>>
  /\ wire' = wire
  /\ timers' = timers
  /\ commits' = commits

\* C20: the spin, history, save and discard endpoints hand the request to the
\* group object only when the caller is authenticated and is the owner or
\* has a verified email that is some participant's emailId. An
\* unauthenticated request is answered 401 and an authenticated one without
\* access 403, and neither changes the group's state or emits an event. GET
\* group and GET participants are answered 200 for every caller.
C20_AccessGate ==
  [][/\ \A auth \in Callers :
          Routed(auth) =>
            IF ~auth.isAuthenticated
            THEN response'.status = 401 /\ ActorUntouched
            ELSE IF ~Initialised
            THEN response'.status = 404 /\ ActorUntouched
            ELSE IF ~MayAccess(auth)
            THEN response'.status = 403 /\ ActorUntouched
            ELSE response'.op \in
                   {"requestSpin", "listHistory", "saveSpin", "discardSpin"}
     /\ (Initialised /\ response'.op = "GET group") =>
          response'.status = 200 /\ response'.body = <<Persisted.group>>
     /\ (Initialised /\ response'.op = "GET participants") =>
          response'.status = 200 /\ response'.body = Roster]_vars

\* C20 witness: while a participant with an email and another one are on the
\* roster, a signed-in user who is neither owner nor participant has asked
\* for a spin and got 403, and the spin is still idle.
C20_Witness ==
  /\ Initialised
  /\ response = [op |-> "POST spin", status |-> 403]
  /\ Len(Actives(Roster)) >= 2
  /\ \E p \in Range(Roster) : p.emailId # Null
  /\ Persisted.spin.status = "idle"
  /\ emitted = <<>>

\* a discard went through to the group object and took a result back
C20_WitnessDiscard ==
  /\ Initialised
  /\ response = [op |-> "discardSpin", status |-> 204]
  /\ emitted # <<>>


\* the positions of the participants whose emailId is, up to case, one of
\* the caller's verified emails
Matching(auth) ==
  {i \in 1..Len(Roster) :
     /\ Roster[i].emailId # Null
     /\ ToLowerCase(Val(Roster[i].emailId)) \in auth.verifiedEmails}

\* the first such participant is a manager
IsManagerCaller(auth) ==
  /\ Matching(auth) # {}
  /\ Roster[CHOOSE i \in Matching(auth) : \A j \in Matching(auth) : i <= j].manager

\* C21: rename, addParticipant, updateParticipant, removeParticipant and
\* commitParticipants are handed to the group object only when the caller is
\* a manager: the first participant, in roster order, whose emailId equals
\* one of the caller's verified emails up to case has the manager flag. A
\* signed-in caller of an existing group who is not a manager is answered 403,
\* an unauthenticated one 401, and neither changes the group's state or emits
\* an event; a manager is never answered 401 or 403.
C21_ManagerGate ==
  [][response'.op \in ManagerRoutes =>
       IF ~response'.by.isAuthenticated
       THEN response'.status = 401 /\ ActorUntouched
       ELSE IF ~Initialised
       THEN response'.status = 404 /\ ActorUntouched
       ELSE IF ~IsManagerCaller(response'.by)
       THEN response'.status = 403 /\ ActorUntouched
       ELSE response'.status \notin {401, 403}]_vars

\* C21 witness: the caller's email is held first by a participant who is no
\* manager and then by one who is; the caller asked to add a participant and
\* got 403, and the roster still is those two.
C21_Witness ==
  /\ Initialised
  /\ response = [op |-> "POST participants", status |-> 403, by |-> MemberCaller]
  /\ Len(Roster) = 2
  /\ Matching(MemberCaller) = {1, 2}
  /\ ~Roster[1].manager /\ Roster[2].manager
  /\ emitted = <<>>

\* the caller's email is held first by a manager and then by a participant
\* who is none: the caller's add went through
C21_WitnessManager ==
  /\ Initialised
  /\ response = [op |-> "POST participants", status |-> 201, by |-> MemberCaller]
  /\ Len(Roster) = 3
  /\ Matching(MemberCaller) = {1, 2}
  /\ Roster[1].manager /\ ~Roster[2].manager
  /\ emitted # <<>>


\* a body that clears the email and supplies nothing else
ClearEmail == [active |-> Undefined, emailId |-> JNull, manager |-> Undefined]
ClearEmailOf(id) ==
  [adds |-> JArr(<<>>),
   updates |-> JArr(<<[participantId |-> JId(id), emailId |-> JNull,
                       manager |-> Undefined]>>),
   removes |-> JArr(<<>>)]

\* participant `id` is a manager and this step is the update, or the commit
\* with the one update, that clears its email without supplying `manager`
ClearsManagerEmail(id) ==
  /\ Initialised
  /\ id \in Ids(Roster)
  /\ ById(Roster, id).manager
  /\ \/ response'.op = "updateParticipant" /\ UpdateParticipant(id, ClearEmail)
     \/ response'.op = "commitParticipants"
          /\ CommitParticipants(ClearEmailOf(id))

\* C22: an updateParticipant, or a commit update, that sets emailId to null
\* on a manager without supplying `manager` succeeds and leaves the
\* participant with emailId null and manager false.
C22_ClearingEmailDropsManager ==
  [][\A id \in 1..MaxParticipantIds :
       ClearsManagerEmail(id) =>
         /\ response'.status = 200
         /\ ById(Roster', id).emailId = Null
         /\ ~ById(Roster', id).manager]_vars

\* what the handlers do with it: 400, and the manager keeps email and flag
C22_ClearingEmailRejected ==
  [][\A id \in 1..MaxParticipantIds :
       ClearsManagerEmail(id) =>
         /\ response'.status = 400
         /\ storage' = storage
         /\ emitted' = <<>>]_vars

\* a manager is on the roster and an update was answered 400
C22_Witness ==
  /\ Initialised
  /\ response = [op |-> "updateParticipant", status |-> 400]
  /\ \E p \in Range(Roster) : p.manager /\ p.emailId # Null


\* the body's name is a valid one that an existing participant bears up to case
DuplicatesName(body) ==
  /\ body.name.t = "string"
  /\ validateName(body.name.v) # Null
  /\ \E p \in Range(Roster) :
       ToLowerCase(p.name) = ToLowerCase(Val(validateName(body.name.v)))

\* the body's emailId is absent, null, blank or no email address
NoValidEmail(body) ==
  \/ body.emailId.t # "string"
  \/ ~EMAIL_PATTERN_test(Trim(body.emailId.v))

\* the body asks for a manager and has no valid emailId
ManagerWithoutEmail(body) == body.manager = JBool(TRUE) /\ NoValidEmail(body)

\* emailId and manager, where given, are an email address and a boolean
WellFormedAdd(body) ==
  /\ body.emailId.t \in {"undefined", "null"} \/ ~NoValidEmail(body)
  /\ body.manager.t \in {"undefined", "boolean"}

C23_Witness400 ==
  /\ Initialised
  /\ response = [op |-> "addParticipant", status |-> 400]
  /\ Roster # <<>>
  /\ emitted = <<>>


\* w(p) = max(1, spinsSinceLastWon + 1)
Weight(p) == IF p.spinsSinceLastWon + 1 > 1 THEN p.spinsSinceLastWon + 1 ELSE 1

\* the cumulative weight of the first i participants of P
RECURSIVE CumWeight(_, _)
CumWeight(P, i) == IF i = 0 THEN 0 ELSE CumWeight(P, i - 1) + Weight(P[i])

\* the first participant of P whose cumulative weight exceeds x
FirstOver(P, x) ==
  P[CHOOSE i \in 1..Len(P) :
      CumWeight(P, i) > x /\ \A j \in 1..(i - 1) : CumWeight(P, j) <= x]

\* the list a spin requested now draws from
Eligible == SeqFilter(Roster, {p \in Range(Roster) : p.active})

\* C24: for the list P of the active participants (two or more), with
\* w(p) = max(1, spinsSinceLastWon + 1) and W their sum, pickWeightedWinner
\* returns for every draw x in [0, W) the first participant whose cumulative
\* weight exceeds x, so over the integer draws 0..W-1 each p is returned
\* exactly w(p) times; and the winner of every started spin is such a
\* participant, active when the spin was requested.
C24_WeightedDraw ==
  /\ [](Initialised /\ Len(Eligible) >= 2 =>
          LET P == Eligible
              W == CumWeight(P, Len(P))
          IN /\ \A x \in 0..(W - 1) :
                  pickWeightedWinner(P, x) = Some(FirstOver(P, x))
             /\ \A i \in 1..Len(P) :
                  Cardinality({x \in 0..(W - 1) :
                                 pickWeightedWinner(P, x) = Some(P[i])})
                    = Weight(P[i]))
  /\ [][(response'.op = "requestSpin" /\ response'.status = 202) =>
          /\ Len(Eligible) >= 2
          /\ \E x \in 0..(CumWeight(Eligible, Len(Eligible)) - 1) :
               storage'[1].spin.winnerParticipantId
                 = Some(FirstOver(Eligible, x).id)
          /\ \E p \in Range(Roster) :
               p.active /\ Some(p.id) = storage'[1].spin.winnerParticipantId]_vars

\* C24 witness: a spin has started on a roster with an inactive participant
\* and active ones of different weights; the winner is an active participant
\* of weight two or more that is not the first of the list.
C24_Witness ==
  /\ Initialised
  /\ response = [op |-> "requestSpin", status |-> 202]
  /\ \E p \in Range(Roster) : ~p.active
  /\ \E p, q \in Range(Eligible) : Weight(p) # Weight(q)
  /\ \E i \in 2..Len(Eligible) :
       /\ Some(Eligible[i].id) = Persisted.spin.winnerParticipantId
       /\ Weight(Eligible[i]) >= 2


\* no request is suspended and no spin timer is pending
Quiescent == inflight = {} /\ timers = {}

\* C25: a subscriber that is connected and whose sends have not failed has
\* applied the snapshot and then every delivered event under the page's rule
\* (an event that is no snapshot and is older than the last version seen is
\* dropped, a snapshot replaces the view); once the group object is
\* quiescent, the page's participant list equals the persisted roster.
C25_ClientConverges ==
  (Initialised /\ Quiescent) =>
    \A c \in Range(sockets) \ failing :
      wire[c].client.participants = Roster

\* C25 witness: a subscriber has received events after its snapshot and the
\* object is quiescent
C25_Witness ==
  /\ Initialised /\ Quiescent
  /\ Roster # <<>>
  /\ \E c \in Range(sockets) \ failing :
       /\ wire[c].client.lastVersion > Val(wire[c].snapshot)
       /\ wire[c].batch # <<>>


\* the success status of each participant route
SuccessStatus(route) ==
  IF route = "POST participants" THEN 201
  ELSE IF route = "DELETE participant" THEN 204
  ELSE 200

\* C26: when the group object has accepted and persisted the change of a
\* participant route, the router answers with the route's success response,
\* whether or not the index store throws during the sync that follows.
C26_IndexFailureTolerated ==
  [][(response'.op \in ManagerRoutes /\ storage' # storage) =>
       response'.status = SuccessStatus(response'.op)]_vars

\* what the router does: an accepted change is never undone, and it is
\* answered with the success status or, when the sync threw, with 500
C26_IndexFailureAnswered500 ==
  [][(response'.op \in ManagerRoutes /\ emitted' # <<>>) =>
       /\ storage' # storage
       /\ response'.status \in {SuccessStatus(response'.op), 500}]_vars

\* a route was answered 500 although its change is persisted and announced
C26_Witness500 ==
  /\ Initialised
  /\ response.op = "POST participants" /\ response.status = 500
  /\ emitted # <<>>
  /\ Len(Roster) = 3


\* C27: an init addressed to a group that is already initialised leaves its
\* participants, spin state, history, pending result and version as they
\* were.
C27_ReinitKeepsState ==
  [][(Initialised /\ response'.op = "init") =>
       /\ Persisted'.participants = Persisted.participants
       /\ Persisted'.spin = Persisted.spin
       /\ Persisted'.spinHistory = Persisted.spinHistory
       /\ Persisted'.pendingResultSpinId = Persisted.pendingResultSpinId
       /\ Persisted'.pendingResultCounters = Persisted.pendingResultCounters
       /\ Persisted'.pendingResultExpiresAt = Persisted.pendingResultExpiresAt
       /\ Persisted'.version = Persisted.version]_vars

\* what the handler does: a second init with a valid name stores an empty
\* roster at version 0, one with a bad name is answered 400 and stores nothing
C27_ReinitResets ==
  [][(Initialised /\ response'.op = "init") =>
       IF response'.status = 201
       THEN Persisted'.participants = <<>> /\ Persisted'.version = 0
       ELSE response'.status = 400 /\ storage' = storage]_vars

\* a second init has emptied a roster that had participants
C27_WitnessWiped ==
  /\ Initialised
  /\ response = [op |-> "init", status |-> 201]
  /\ Roster = <<>>
  /\ ackedAdds # {}
  /\ ackedRemoves = {}


\* the step left something other than the version different in the stored state
ChangesGroupState == [Persisted' EXCEPT !.version = Persisted.version] # Persisted

\* C28: the version never decreases; a step that changes the stored group
\* state increases the version by exactly 1 and every event it sends carries
\* the new version; a step that fails or changes nothing (a discardSpin whose
\* spinId is neither pending nor in the history, a commit with empty adds,
\* updates and removes) leaves the version as it was.
C28_VersionOncePerChange ==
  [][(Initialised /\ Initialised') =>
       /\ Persisted'.version >= Persisted.version
       /\ ChangesGroupState =>
            /\ Persisted'.version = Persisted.version + 1
            /\ \A i \in 1..Len(emitted') :
                 emitted'[i].version = Persisted'.version
       /\ ~ChangesGroupState => Persisted'.version = Persisted.version]_vars

\* what the handlers do when they run one after the other: every step that
\* writes the state, whether or not it changed anything but the version,
\* increases the version by exactly 1, and its events carry the new version
C28_VersionOncePerSave ==
  [][(Initialised /\ Initialised') =>
       /\ storage' # storage => Persisted'.version = Persisted.version + 1
       /\ \A i \in 1..Len(emitted') : emitted'[i].version = Persisted'.version]_vars

\* a discard of a spin that is neither pending nor in the history was
\* answered 204; the version is above 0 on an empty roster on which no
\* participant was ever added
C28_WitnessIdleDiscard ==
  /\ Initialised
  /\ response = [op |-> "discardSpin", status |-> 204]
  /\ emitted = <<>>
  /\ Roster = <<>> /\ ackedAdds = {}
  /\ Persisted.version > 0


\* the stored state `state` holds the change that event `e` describes
Contains(state, e) ==
  IF e.type = "snapshot"
  THEN /\ state.participants = e.payload.participants
       /\ state.spin = e.payload.spin
  ELSE IF e.type \in {"participant.added", "participant.updated"}
  THEN e.payload.participant \in Range(state.participants)
  ELSE IF e.type = "participant.removed"
  THEN e.payload.participantId \notin Ids(state.participants)
  ELSE IF e.type \in {"spin.started", "spin.resolved"}
  THEN state.spin = e.payload.spin
  ELSE IF e.type = "spin.result.dismissed"
  THEN state.pendingResultSpinId # Some(e.payload.spinId)
  ELSE FALSE

\* C29: whenever events are sent to a subscriber, the persisted state
\* already has a version no lower than theirs and already holds the change
\* each of them describes; a step that persisted nothing, as when the write
\* failed, sends no event.
C29_NoEventAheadOfState ==
  [][/\ \A c \in ClientIds :
          wire'[c] # wire[c] =>
            \A i \in 1..Len(wire'[c].batch) :
              /\ Initialised'
              /\ Persisted'.version >= wire'[c].batch[i].version
              /\ Contains(Persisted', wire'[c].batch[i])
     /\ storage' = storage =>
          /\ emitted' = <<>>
          /\ \A c \in Range(sockets) : wire'[c] = wire[c]]_vars

\* C29 witness: a subscriber received the events of a timer's resolution
\* (spin.resolved and a participant.updated per active participant)
C29_Witness ==
  /\ Initialised
  /\ response.op = "resolveSpin"
  /\ \E c \in Range(sockets) :
       /\ Len(wire[c].batch) >= 3
       /\ wire[c].batch = emitted

\* a write failed while a subscriber was connected: the request was answered
\* 400 although its body was fine, and nothing was stored or sent
C29_WitnessPutThrows ==
  /\ Initialised
  /\ response = [op |-> "requestSpin", status |-> 400]
  /\ Len(Actives(Roster)) >= 2
  /\ Persisted.spin.status = "idle"
  /\ sockets # <<>>
  /\ emitted = <<>>


\* C30: when a step broadcasts, every subscriber whose send throws is
\* removed from the subscriber set and its socket is closed with code 1011,
\* and it receives nothing; every other subscriber stays and receives the
\* events of the step; a request that caused the broadcast is answered with
\* its success status; and a socket closed this way is never a subscriber
\* again nor receives anything.
C30_SendFailureDropsOne ==
  [][/\ emitted' # <<>> =>
          /\ \A c \in Range(sockets) :
               IF c \in failing
               THEN /\ c \notin Range(sockets')
                    /\ wire'[c] = [wire[c] EXCEPT !.closed = 1011]
               ELSE /\ c \in Range(sockets')
                    /\ wire'[c].batch = emitted'
                    /\ wire'[c].closed = 0
          /\ Range(sockets') \subseteq Range(sockets)
          /\ response'.op # "resolveSpin" => response'.status \in 200..299
          /\ storage' # storage
     /\ \A c \in ClientIds :
          wire[c].closed = 1011 =>
            wire'[c] = wire[c] /\ c \notin Range(sockets')]_vars

\* C30 witness: of two subscribers the first was dropped by the broadcast of
\* a spin.started (closed 1011, still holding only its snapshot) while the
\* second received the event and the request was answered 202
C30_Witness ==
  /\ Initialised
  /\ response = [op |-> "requestSpin", status |-> 202]
  /\ sockets = <<2>>
  /\ wire[1].closed = 1011 /\ wire[1].batch[1].type = "snapshot"
  /\ wire[2].batch = emitted /\ emitted[1].type = "spin.started"

\* a later broadcast went past the dropped subscriber
C30_WitnessLater ==
  /\ Initialised
  /\ response.op = "resolveSpin"
  /\ sockets = <<2>>
  /\ wire[1].closed = 1011 /\ wire[1].batch[1].type = "snapshot"
  /\ wire[2].batch = emitted /\ emitted # <<>>
  /\ wire[2].prev # Null


\* the subscriber's last delivery carries spin.started of the spin `spinId`
StartedReceived(c, spinId) ==
  \E i \in 1..Len(wire[c].batch) :
    /\ wire[c].batch[i].type = "spin.started"
    /\ wire[c].batch[i].payload.spin.spinId = Some(spinId)

\* the last step was a resolve that took effect; what it broadcast is
\* spin.resolved followed by one participant.updated for each participant
\* that was active when it ran, and every connected subscriber received
\* exactly that
ResolveBatchInOrder ==
  (response.op = "resolveSpin" /\ preResolve # Null) =>
    LET before == Actives(Val(preResolve).participants)
    IN /\ Len(emitted) = 1 + Len(before)
       /\ emitted[1].type = "spin.resolved"
       /\ \A i \in 1..Len(before) :
            /\ emitted[i + 1].type = "participant.updated"
            /\ emitted[i + 1].payload.participant.id = before[i].id
       /\ \A c \in Range(sockets) : wire[c].batch = emitted

\* C31: for every spin a subscriber that stays connected receives
\* spin.started for its id, later spin.resolved for the same id, and only
\* after that spin.resolved one participant.updated per participant active
\* at resolve time.
C31_SubscriberSeesSpinInOrder ==
  /\ []ResolveBatchInOrder
  /\ \A c \in 1..MaxSockets, spinId \in 1..MaxSpins :
       (c \in Range(sockets) /\ StartedReceived(c, spinId))
         ~> (c \notin Range(sockets) \/ ResolvedReceived(c, spinId) >= 1)

\* C31, the delivery of one resolve: spin.resolved first, then the
\* participant.updated events of the participants active at resolve time
C31_ResolveBatchInOrder == ResolveBatchInOrder

C31_Witness ==
  /\ response.op = "resolveSpin" /\ preResolve # Null
  /\ Len(emitted) = 3
  /\ \E c \in Range(sockets) :
       wire[c].batch = emitted /\ ResolvedReceived(c, 1) = 1

\* the stored spin is not the spinning spin `spinId`
Superseded(spinId) ==
  Persisted.spin.status # "spinning" \/ Persisted.spin.spinId # Some(spinId)

\* C32: resolveSpin(spinId) run when the stored spin is not spinning or
\* carries another spinId changes nothing: the stored state (version,
\* history, pending result) stays as it is and no subscriber receives
\* an event.
C32_SupersededResolveNoOp ==
  [][response'.op = "resolveSpin" =>
       \A timer \in timers \ timers' :
         Superseded(timer.spinId) =>
           /\ storage' = storage
           /\ emitted' = <<>>
           /\ wire' = wire
           /\ sockets' = sockets]_vars

\* a timer fired while a later spin was in progress, and left it spinning
C32_Witness ==
  /\ response.op = "resolveSpin"
  /\ emitted = <<>>
  /\ Persisted.spin.status = "spinning"
  /\ Persisted.spin.spinId = Some(2)
  /\ \A timer \in timers : timer.spinId # 1

\* a timer fired after its spin had been overwritten by an idle state
C32_WitnessIdle ==
  /\ response.op = "resolveSpin"
  /\ emitted = <<>>
  /\ Persisted.spin.status = "idle"
  /\ Persisted.spinHistory = <<>>
  /\ started # {}
\* the id of the spin that resolved last: spin ids are handed out in order
\* and a spin resolves before the next one can start
LastResolved ==
  nextSpinId - 1 - (IF Persisted.spin.status = "spinning" THEN 1 ELSE 0)

\* the counters of the participants active in the roster `ps`
CountersOf(ps) ==
  [id \in {p.id : p \in {q \in Range(ps) : q.active}} |->
     ById(ps, id).spinsSinceLastWon]

PendingId(st) == st.pendingResultSpinId

\* C33: the one pending result of a group is that of the spin resolved
\* last; a resolve sets it to the spin's id with the counters from before
\* the resolution, a saveSpin or discardSpin with that spinId clears it,
\* and a pending result that has not expired is cleared by nothing else.
C33_PendingLifeCycle ==
  /\ [](Initialised /\ PendingId(Persisted) # Null =>
          /\ Val(PendingId(Persisted)) = LastResolved
          /\ Persisted.pendingResultCounters # Null
          /\ Persisted.pendingResultExpiresAt # Null)
  /\ [][Initialised =>
          /\ (response'.op = "resolveSpin" /\ preResolve' # Null) =>
               /\ PendingId(Persisted') = Persisted.spin.spinId
               /\ Persisted'.pendingResultCounters =
                    Some(CountersOf(Persisted.participants))
          /\ (PendingId(Persisted') # PendingId(Persisted)
                /\ PendingId(Persisted') # Null) =>
               response'.op = "resolveSpin"
          /\ (PendingId(Persisted) # Null
                /\ response'.op \in {"saveSpin", "discardSpin"}
                /\ (\/ SaveSpin(Val(PendingId(Persisted)))
                    \/ DiscardSpin(Val(PendingId(Persisted))))) =>
               PendingId(Persisted') = Null
          /\ (PendingId(Persisted) # Null /\ PendingId(Persisted') = Null
                /\ ~isPendingExpired(Persisted, now)) =>
               \/ SaveSpin(Val(PendingId(Persisted)))
               \/ DiscardSpin(Val(PendingId(Persisted)))]_vars

\* the pending result of spin 1 was discarded under its own id
C33_Witness ==
  /\ response.op = "discardSpin"
  /\ \E i \in 1..Len(emitted) :
       /\ emitted[i].type = "spin.result.dismissed"
       /\ emitted[i].payload.spinId = 1
  /\ PendingId(Persisted) = Null
  /\ LastResolved = 1

\* a discard under another id left the pending result of spin 1 in place
C33_WitnessKept ==
  /\ response.op = "discardSpin"
  /\ emitted = <<>>
  /\ PendingId(Persisted) = Some(1)
\* the last step was a save or discard that dismissed a pending result
DismissedPending ==
  /\ response.op \in {"saveSpin", "discardSpin"}
  /\ \E i \in 1..Len(emitted) : emitted[i].type = "spin.result.dismissed"

\* C34: after a saveSpin or discardSpin that consumes the pending result
\* the stored spin is a fresh idle: status idle and spinId, startedAt,
\* resolvedAt, winnerParticipantId, durationMs and extraTurns all null.
C34_FreshIdleAfterDismiss ==
  DismissedPending => Persisted.spin = DEFAULT_SPIN_STATE

\* C34, as the handlers behave: a dismissal leaves the stored spin, with
\* its id, start time and winner, as it was
C34_DismissKeepsSpin ==
  DismissedPending =>
    /\ Persisted.spin.spinId # Null
    /\ Persisted.spin.startedAt # Null
    /\ Persisted.spin.winnerParticipantId # Null
\* the normalised emails of the participants of a roster
EmailsOf(ps) ==
  {normalizeEmail(Val(p.emailId)) :
     p \in {q \in Range(ps) : ~IsNull(q.emailId) /\ Trim(Val(q.emailId)) # <<>>}}

\* the index agrees with the roster: participant-index lists the emails of
\* the stored participants and a participant-group key exists for each
IndexInSync ==
  /\ kv.index = Some(EmailsOf(Persisted.participants))
  /\ kv.keys = EmailsOf(Persisted.participants)

\* C35: once every router request of a group has completed, those whose
\* change and index sync interleaved included, participant-index equals the
\* emails of the object's current participants and participant-group keys
\* exist exactly for those emails.
C35_IndexFollowsRoster ==
  (Initialised /\ inflight = {} /\ response.op \in ManagerRoutes
     /\ response.status \in 200..299)
    => IndexInSync

\* C35, without overlap: a sync that writes the roster the object holds at
\* that moment leaves the index agreeing with it
C35_SyncOfCurrentRoster ==
  [][\A q \in inflight :
       (q.stage = "read" /\ inflight' = inflight \ {q}
          /\ q.participants = Persisted.participants)
         => IndexInSync']_vars

\* a sync wrote the index from a roster read before a later change
C35_WitnessStale ==
  /\ Initialised /\ inflight = {}
  /\ response.op \in ManagerRoutes /\ response.status \in 200..299
  /\ ~IndexInSync
\* the step is the object applying the change of a manager route
AppliesChange ==
  /\ response'.op \in ManagerRoutes
  /\ "stage" \in DOMAIN response'
  /\ response'.stage = "applied"
  /\ response'.saved

\* C36: a manager-gated change is authorised against the state it is
\* applied to: when the object applies the change of caller X, X still
\* matches a participant of the stored roster whose manager flag is set.
C36_AuthorisedWhenApplied ==
  [][AppliesChange => requireManager(storage, response'.by) = 0]_vars

\* C37: the three pending-result fields are all null or all non-null, and
\* while they are set the newest history item is the one whose id is
\* pendingResultSpinId.
C37_PendingHasNewestItem ==
  Initialised =>
    /\ (Persisted.pendingResultSpinId = Null) = (Persisted.pendingResultCounters = Null)
    /\ (Persisted.pendingResultSpinId = Null) = (Persisted.pendingResultExpiresAt = Null)
    /\ Persisted.pendingResultSpinId # Null =>
         /\ Persisted.spinHistory # <<>>
         /\ Persisted.spinHistory[Len(Persisted.spinHistory)].id
              = Val(Persisted.pendingResultSpinId)

\* the pending result of a later spin on top of a history of several items
C37_Witness ==
  /\ Initialised
  /\ response.op = "resolveSpin"
  /\ Persisted.pendingResultSpinId # Null
  /\ Len(Persisted.spinHistory) >= 2
  /\ Persisted.spinHistory[Len(Persisted.spinHistory)].id
       = Val(Persisted.pendingResultSpinId)
\* the number of spin.resolved events among `events`
ResolvedCount(events) == Len(ResolvedIds(events))

\* C38: a started spin is resolved at most once. History item ids are
\* pairwise distinct and no subscriber receives two spin.resolved for one
\* spin id; a spin has one timer, set when it starts, and a resolve that
\* takes effect is the run of the timer of the stored spin: it emits one
\* spin.resolved, appends the one item of that id and counts the spin once.
C38_ResolvedAtMostOnce ==
  /\ [](Initialised =>
          /\ \A i, j \in 1..Len(Persisted.spinHistory) :
               i # j => Persisted.spinHistory[i].id # Persisted.spinHistory[j].id
          /\ \A c \in ClientIds, spinId \in 1..MaxSpins :
               ResolvedReceived(c, spinId) <= 1
          /\ \A t1, t2 \in timers : t1.spinId = t2.spinId => t1 = t2
          /\ \A t \in timers : t.spinId < nextSpinId)
  /\ [][(response'.op = "resolveSpin" /\ preResolve' # Null) =>
          \E t \in timers \ timers' :
             /\ Persisted.spin.spinId = Some(t.spinId)
             /\ \A i \in 1..Len(Persisted.spinHistory) :
                  Persisted.spinHistory[i].id # t.spinId
             /\ ResolvedCount(emitted') = 1
             /\ ResolvedIds(emitted') = <<t.spinId>>
             /\ Cardinality({i \in 1..Len(Persisted'.spinHistory) :
                               Persisted'.spinHistory[i].id = t.spinId}) = 1
             /\ \A i \in 1..Len(Persisted.participants) :
                  Persisted'.participants[i].spinsSinceLastWon
                    <= Persisted.participants[i].spinsSinceLastWon + 1]_vars

\* spin 2 was resolved by its own timer after the timer of spin 1, whose
\* spin had been overwritten, was still pending when spin 2 started
C38_Witness ==
  /\ response.op = "resolveSpin" /\ preResolve # Null
  /\ Persisted.pendingResultSpinId = Some(2)
  /\ ResolvedIds(emitted) = <<2>>
  /\ \A i \in 1..Len(Persisted.spinHistory) : Persisted.spinHistory[i].id # 1
\* C39: an updateParticipant request that is rejected, also after some of
\* its fields were assigned to the loaded copy, persists nothing, does not
\* bump the version and emits no event.
C39_RejectedUpdateLeavesNoTrace ==
  [][(response'.op = "updateParticipant" /\ response'.status \notin 200..299) =>
       /\ storage' = storage
       /\ emitted' = <<>>
       /\ wire' = wire]_vars

\* a request that deactivates a participant was answered 400 with a
\* subscriber listening, and both participants are still active
C39_Witness ==
  /\ response.op = "updateParticipant" /\ response.status = 400
  /\ sockets # <<>>
  /\ Len(Persisted.participants) >= 2
  /\ \A i \in 1..Len(Persisted.participants) : Persisted.participants[i].active
\* C40: once close() has been called on the connection no WebSocket is
\* created and no reconnect timer is armed, whatever close or error
\* callbacks of the old socket fire afterwards, and the last status reported
\* is closed; before close() every socket close schedules exactly one
\* reconnect with delay min(1000 * 2^(attempt-1), 10000) ms, and the attempt
\* counter is 0 after an open.
C40_CloseStopsReconnect ==
  /\ [](/\ conn.isClosed => (conn.armed = Null /\ conn.status = "closed")
        /\ Cardinality(conn.sockets) <= 1
        /\ conn.sockets # {} => conn.armed = Null)
  /\ [][/\ conn.isClosed =>
             /\ conn'.isClosed
             /\ conn'.created = conn.created
        /\ (response'.op = "ws.close" /\ ~conn.isClosed) =>
             /\ conn'.reconnectAttempt = conn.reconnectAttempt + 1
             /\ conn'.armed =
                  Some(Min(1000 * 2^(conn'.reconnectAttempt - 1), 10000))
             /\ conn'.created = conn.created
        /\ (response'.op = "ws.timer" /\ ~conn.isClosed) =>
             /\ conn'.created = conn.created + 1
             /\ conn'.armed = Null
        /\ response'.op = "ws.open" => conn'.reconnectAttempt = 0]_vars

\* close() was called while a socket created by a reconnect was still
\* there, and the close event of that socket has fired since
C40_Witness ==
  /\ conn.isClosed
  /\ response.op = "ws.close"
  /\ conn.created >= 2
  /\ conn.sockets = {}

\* the capped delay: the fifth close in a row arms the timer with 10000 ms
C40_WitnessCapped ==
  /\ ~conn.isClosed
  /\ conn.reconnectAttempt = 5
  /\ conn.armed = Some(10000)
====
